---- MODULE Spec2Model ----
(***************************************************************************)
(* Model of slang's constant-evaluation session (EvalContext.cpp) and of   *)
(* the built-in container methods (ArrayMethods.cpp).                      *)
(***************************************************************************)
EXTENDS Integers, Sequences, FiniteSets, TLC

VARIABLES
    options,        \* compilation.getOptions(): the three constexpr limits
    steps,          \* EvalContext::steps
    stack,          \* EvalContext::stack, bottom frame first
    lvalStack,      \* EvalContext::lvalStack
    diags,          \* EvalContext::diags, oldest first
    disableTarget,  \* EvalContext::disableTarget
    assertFailed,   \* an ASSERT of the code has fired
    calls,          \* number of step() calls since construction or reset()
    kind,           \* SymbolKind of the receiver's type, args[0]->type
    q,              \* the receiver when it is a queue (SVQueue contents)
    maxBound,       \* that queue's configured maximum size, 0 when unbounded
    dyn,            \* the receiver when it is a dynamic or a fixed-size array
    map,            \* the receiver when it is an associative array
    elemType,       \* the receiver's element type: bit width and signedness
    last,           \* the most recent call: name, arguments, result, state before
    prev,           \* the call before `last`
    pc,             \* position of the evaluation driving the session
    drv             \* that evaluation's own data

vars == <<options, steps, stack, lvalStack, diags, disableTarget, assertFailed,
          calls, kind, q, maxBound, dyn, map, elemType, last, prev, pc,
          drv>>

ctxVars == <<steps, stack, lvalStack, diags, disableTarget, assertFailed, calls>>
valVars == <<kind, q, maxBound, dyn, map, elemType>>

-----------------------------------------------------------------------------
(* Bounds of the model *)

MaxFrames == 3      \* frames the session is driven to
MaxDiags == 1       \* pending diagnostics the session is driven to
MaxStepCalls == 4   \* step() calls between two reset() calls
MaxLimit == 2       \* largest configured call depth / backtrace limit
MaxQLen == 3        \* queue, dynamic array lengths
MaxNest == 4        \* nested calls a recursive function needs
MaxIters == 4       \* iterations a terminating loop needs

-----------------------------------------------------------------------------
(* Values, symbols, subroutines *)

Values == {0, 1, 2}
DefaultValue == 0
Symbols == {"a", "t"}
Subroutines == {"f", "g"}
NoSubroutine == "null"
CallLocations == {1}
NoLocation == 0

Null == [kind |-> "null"]
NoEntry == [op |-> "none"]

\* SubroutineSymbol::getArguments: f(a), g()
getArguments(subroutine) == IF subroutine = "f" THEN <<"a">> ELSE <<>>

Min(a, b) == IF a < b THEN a ELSE b
Max(a, b) == IF a < b THEN b ELSE a

\* make_reverse_range
Reverse(s) == [i \in 1..Len(s) |-> s[Len(s) + 1 - i]]

RECURSIVE Concat(_)
Concat(ss) == IF ss = <<>> THEN <<>> ELSE Head(ss) \o Concat(Tail(ss))

\* EvalContext::Frame
Frame(subroutine, callLocation) ==
    [subroutine |-> subroutine, callLocation |-> callLocation,
     temporaries |-> << >>]

EmptyFrame == Frame(NoSubroutine, NoLocation)

\* the frame's locals hold every argument of its subroutine
ArgsBound(frame) ==
    \A i \in 1..Len(getArguments(frame.subroutine)) :
        getArguments(frame.subroutine)[i] \in DOMAIN frame.temporaries

-----------------------------------------------------------------------------
(* Diagnostics and backtraces *)

\* reportFrame: the notes one frame adds to a diagnostic
reportFrameOfAnyFrame(frame) ==
    <<[code |-> "NoteInCallTo", location |-> frame.callLocation,
       subroutine |-> frame.subroutine,
       args |-> [i \in 1..Len(getArguments(frame.subroutine)) |->
                    frame.temporaries[getArguments(frame.subroutine)[i]]]]>>
reportFrame(frame) ==
    IF frame.subroutine = NoSubroutine THEN <<>>
    ELSE <<[code |-> "NoteInCallTo", location |-> frame.callLocation,
            subroutine |-> frame.subroutine,
            args |-> [i \in 1..Len(getArguments(frame.subroutine)) |->
                         frame.temporaries[getArguments(frame.subroutine)[i]]]]>>

\* EvalContext::reportStack: the notes the frame stack st adds to a diagnostic
reportStackOldestHalfFirst(st) ==
    LET limit == options.maxConstexprBacktrace
        reversed == Reverse(st)
    IN  IF Len(st) <= limit \/ limit = 0
        THEN Concat([i \in 1..Len(st) |-> reportFrame(reversed[i])])
        ELSE LET start == limit \div 2
                 end == start + (limit % 2)
             IN Concat([i \in 1..end |-> reportFrame(reversed[i])])
                \o <<[code |-> "NoteSkippingFrames",
                      location |-> reversed[end + 1].callLocation,
                      count |-> Len(st) - limit]>>
                \o Concat([i \in 1..start |->
                              reportFrame(reversed[Len(st) - start + i])])
reportStack(st) ==
    LET limit == options.maxConstexprBacktrace
        reversed == Reverse(st)
    IN  IF Len(st) <= limit \/ limit = 0
        THEN Concat([i \in 1..Len(st) |-> reportFrame(reversed[i])])
        ELSE LET start == limit \div 2
                 end == start + (limit % 2)
             IN Concat([i \in 1..start |-> reportFrame(reversed[i])])
                \o <<[code |-> "NoteSkippingFrames",
                      location |-> reversed[start + 1].callLocation,
                      count |-> Len(st) - limit]>>
                \o Concat([i \in 1..end |->
                              reportFrame(reversed[Len(st) - end + i])])

\* EvalContext::addDiag: the pending list after adding a diagnostic
addDiagWithoutBacktrace(code, location) ==
    Append(diags, [code |-> code, location |-> location, notes |-> <<>>])
addDiag(code, location) ==
    Append(diags, [code |-> code, location |-> location,
                   notes |-> reportStack(stack)])

-----------------------------------------------------------------------------
(* The session: EvalContext.  Each operation is the transition of the     *)
(* session's own fields and of `last`; who may call it, and what the rest *)
(* of the state does meanwhile, is said by the specification that uses it. *)

\* what a call leaves in `last`: its name, its argument and what it returned
Obs(op, arg, ret) == [op |-> op, arg |-> arg, ret |-> ret]

\* EvalContext::reset
resetKeepsSteps ==
    /\ steps' = steps
    /\ disableTarget' = Null
    /\ stack' = <<>>
    /\ lvalStack' = <<>>
    /\ diags' = <<>>
    /\ calls' = calls
    /\ last' = Obs("reset", Null, Null)
    /\ UNCHANGED assertFailed
reset ==
    /\ steps' = 0
    /\ disableTarget' = Null
    /\ stack' = <<>>
    /\ lvalStack' = <<>>
    /\ diags' = <<>>
    /\ calls' = 0
    /\ last' = Obs("reset", Null, Null)
    /\ UNCHANGED assertFailed

\* a call of addDiag by the evaluation of an expression or statement
addDiagCall(code, location) ==
    /\ diags' = addDiag(code, location)
    /\ last' = Obs("addDiag", code, Null)
    /\ UNCHANGED <<steps, stack, lvalStack, disableTarget, assertFailed, calls>>

\* the condition under which pushFrame refuses to push
pushFrameFailsOneEarly == Len(stack) + 1 >= options.maxConstexprDepth
pushFrameFailsOffByOne == Len(stack) > options.maxConstexprDepth
pushFrameFails == Len(stack) >= options.maxConstexprDepth

\* EvalContext::pushFrame
pushFrame(subroutine, callLocation) ==
    /\ IF pushFrameFails
       THEN /\ Len(diags) < MaxDiags
            /\ diags' = addDiag("ConstEvalExceededMaxCallDepth", subroutine)
            /\ stack' = stack
            /\ last' = Obs("pushFrame", subroutine, FALSE)
       ELSE /\ stack' = Append(stack, Frame(subroutine, callLocation))
            /\ diags' = diags
            /\ last' = Obs("pushFrame", subroutine, TRUE)
    /\ UNCHANGED <<steps, lvalStack, disableTarget, assertFailed, calls>>

\* EvalContext::pushEmptyFrame
pushEmptyFrameWithinDepth ==
    /\ Len(stack) < MaxFrames
    /\ IF pushFrameFails
       THEN /\ stack' = stack
            /\ diags' = addDiag("ConstEvalExceededMaxCallDepth", NoSubroutine)
       ELSE /\ stack' = Append(stack, EmptyFrame)
            /\ diags' = diags
    /\ last' = Obs("pushEmptyFrame", Null, Null)
    /\ UNCHANGED <<steps, lvalStack, disableTarget, assertFailed, calls>>
pushEmptyFrame ==
    /\ Len(stack) < MaxFrames
    /\ stack' = Append(stack, EmptyFrame)
    /\ last' = Obs("pushEmptyFrame", Null, Null)
    /\ UNCHANGED <<steps, lvalStack, diags, disableTarget, assertFailed, calls>>

\* EvalContext::popFrame
popFrameOldest ==
    /\ stack # <<>>
    /\ stack' = Tail(stack)
    /\ last' = Obs("popFrame", Null, Null)
    /\ UNCHANGED <<steps, lvalStack, diags, disableTarget, assertFailed, calls>>
popFrame ==
    /\ stack # <<>>
    /\ stack' = SubSeq(stack, 1, Len(stack) - 1)
    /\ last' = Obs("popFrame", Null, Null)
    /\ UNCHANGED <<steps, lvalStack, diags, disableTarget, assertFailed, calls>>

\* EvalContext::createLocal; value is <<>> when the caller gives none
createLocalKeepsBinding(symbol, value) ==
    /\ IF stack = <<>>
       THEN /\ assertFailed' = TRUE
            /\ stack' = stack
            /\ last' = Obs("createLocal", [symbol |-> symbol, value |-> value], Null)
       ELSE LET top == stack[Len(stack)]
                result == IF symbol \in DOMAIN top.temporaries
                          THEN top.temporaries[symbol]
                          ELSE IF value = <<>> THEN DefaultValue ELSE value[1]
                temps == [s \in DOMAIN top.temporaries \cup {symbol} |->
                             IF s = symbol THEN result ELSE top.temporaries[s]]
            IN /\ stack' = [stack EXCEPT ![Len(stack)].temporaries = temps]
               /\ assertFailed' = assertFailed
               /\ last' = Obs("createLocal", [symbol |-> symbol, value |-> value],
                           result)
    /\ UNCHANGED <<steps, lvalStack, diags, disableTarget, calls>>
createLocalPushingFrame(symbol, value) ==
    LET st == IF stack = <<>> THEN <<EmptyFrame>> ELSE stack
        top == st[Len(st)]
        result == IF value = <<>> THEN DefaultValue ELSE value[1]
        temps == [s \in DOMAIN top.temporaries \cup {symbol} |->
                     IF s = symbol THEN result ELSE top.temporaries[s]]
    IN /\ stack' = [st EXCEPT ![Len(st)].temporaries = temps]
       /\ assertFailed' = assertFailed
       /\ last' = Obs("createLocal", [symbol |-> symbol, value |-> value],
                           result)
       /\ UNCHANGED <<steps, lvalStack, diags, disableTarget, calls>>
createLocal(symbol, value) ==
    /\ IF stack = <<>>
       THEN /\ assertFailed' = TRUE
            /\ stack' = stack
            /\ last' = Obs("createLocal", [symbol |-> symbol, value |-> value], Null)
       ELSE LET top == stack[Len(stack)]
                result == IF value = <<>> THEN DefaultValue ELSE value[1]
                temps == [s \in DOMAIN top.temporaries \cup {symbol} |->
                             IF s = symbol THEN result ELSE top.temporaries[s]]
            IN /\ stack' = [stack EXCEPT ![Len(stack)].temporaries = temps]
               /\ assertFailed' = assertFailed
               /\ last' = Obs("createLocal", [symbol |-> symbol, value |-> value],
                           result)
    /\ UNCHANGED <<steps, lvalStack, diags, disableTarget, calls>>

\* what findLocal finds for symbol in the frame stack st: <<>> for nullptr
RECURSIVE foundInAnyFrame(_, _)
foundInAnyFrame(st, symbol) ==
    IF st = <<>> THEN <<>>
    ELSE IF symbol \in DOMAIN st[Len(st)].temporaries
    THEN <<st[Len(st)].temporaries[symbol]>>
    ELSE foundInAnyFrame(SubSeq(st, 1, Len(st) - 1), symbol)
found(st, symbol) ==
    IF st = <<>> THEN <<>>
    ELSE IF symbol \in DOMAIN st[Len(st)].temporaries
    THEN <<st[Len(st)].temporaries[symbol]>>
    ELSE <<>>

\* EvalContext::findLocal
findLocal(symbol) ==
    /\ last' = Obs("findLocal", symbol, found(stack, symbol))
    /\ UNCHANGED ctxVars

\* EvalContext::deleteLocal
deleteLocal(symbol) ==
    /\ IF stack # <<>>
       THEN LET top == stack[Len(stack)]
                temps == [s \in DOMAIN top.temporaries \ {symbol} |->
                             top.temporaries[s]]
            IN stack' = [stack EXCEPT ![Len(stack)].temporaries = temps]
       ELSE stack' = stack
    /\ last' = Obs("deleteLocal", symbol, Null)
    /\ UNCHANGED <<steps, lvalStack, diags, disableTarget, assertFailed, calls>>

\* the diagnostics that addDiags appends for the list additional
appendedAllWithStack(additional) ==
    [i \in 1..Len(additional) |->
        [additional[i] EXCEPT !.notes = @ \o reportStack(stack)]]
appended(additional) ==
    [i \in 1..Len(additional) |->
        IF i = 1 THEN [additional[i] EXCEPT !.notes = @ \o reportStack(stack)]
        ELSE additional[i]]

\* EvalContext::addDiags
addDiags(additional) ==
    /\ diags' = diags \o appended(additional)
    /\ last' = Obs("addDiags", additional, Null)
    /\ UNCHANGED <<steps, stack, lvalStack, disableTarget, assertFailed, calls>>

\* ASTContext::addAssertionBacktrace: the diagnostic with the notes of the
\* instantiation history
addAssertionBacktrace(diag) ==
    [diag EXCEPT !.notes = @ \o <<[code |-> "NoteWhileExpanding"]>>]

\* the pending diagnostics as reportDiags hands them over, for a context
\* with or without an assertion instance
reportedOnAll(ds, assertionInstance) ==
    IF assertionInstance
    THEN [i \in 1..Len(ds) |-> addAssertionBacktrace(ds[i])]
    ELSE ds
reported(ds, assertionInstance) ==
    IF assertionInstance
    THEN [ds EXCEPT ![1] = addAssertionBacktrace(@)]
    ELSE ds

\* EvalContext::reportDiags; drv is the ASTContext: whether it has an
\* assertion instance, and the diagnostics of its scope
reportDiagsClearing ==
    /\ IF diags = <<>>
       THEN UNCHANGED <<diags, drv>>
       ELSE /\ diags' = <<>>
            /\ drv' = [drv EXCEPT !.scope =
                           @ \o reported(diags, drv.assertionInstance)]
    /\ last' = Obs("reportDiags", Null, Null)
    /\ UNCHANGED <<steps, stack, lvalStack, disableTarget, assertFailed, calls>>
reportDiags ==
    /\ IF diags = <<>>
       THEN UNCHANGED <<diags, drv>>
       ELSE /\ diags' = reported(diags, drv.assertionInstance)
            /\ drv' = [drv EXCEPT !.scope = @ \o diags']
    /\ last' = Obs("reportDiags", Null, Null)
    /\ UNCHANGED <<steps, stack, lvalStack, disableTarget, assertFailed, calls>>

\* the reference targets: LValue objects of the evaluation
Targets == {"x", "y"}

\* EvalContext::pushLValue
pushLValue(lval) ==
    /\ lvalStack' = Append(lvalStack, lval)
    /\ last' = Obs("pushLValue", lval, Null)
    /\ UNCHANGED <<steps, stack, diags, disableTarget, assertFailed, calls>>

\* EvalContext::popLValue, called with a target on the stack
popLValue ==
    /\ lvalStack # <<>>
    /\ lvalStack' = SubSeq(lvalStack, 1, Len(lvalStack) - 1)
    /\ last' = Obs("popLValue", Null, Null)
    /\ UNCHANGED <<steps, stack, diags, disableTarget, assertFailed, calls>>

\* lvalStack.back(), and <<>> for nullptr
topLValueOldest(ls) == IF ls = <<>> THEN <<>> ELSE <<ls[1]>>
topLValue(ls) == IF ls = <<>> THEN <<>> ELSE <<ls[Len(ls)]>>

\* EvalContext::getTopLValue
getTopLValue ==
    /\ last' = Obs("getTopLValue", Null, topLValue(lvalStack))
    /\ UNCHANGED ctxVars

\* EvalContext::setDisableTarget: the block a disable statement unwinds to,
\* and the range of that statement
setDisableTarget(target, range) ==
    /\ disableTarget' = [target |-> target, range |-> range]
    /\ last' = Obs("setDisableTarget", target, Null)
    /\ UNCHANGED <<steps, stack, lvalStack, diags, assertFailed, calls>>

\* the condition `++steps < maxConstexprSteps` of step, read before the increment
stepSucceedsBeforeIncrement == steps < options.maxConstexprSteps
stepSucceeds == steps + 1 < options.maxConstexprSteps

\* EvalContext::step
stepUnwinding(loc) ==
    /\ calls < MaxStepCalls
    /\ steps' = steps + 1
    /\ calls' = calls + 1
    /\ IF stepSucceeds
       THEN /\ diags' = diags
            /\ stack' = stack
            /\ last' = Obs("step", loc, TRUE)
       ELSE /\ diags' = addDiag("ConstEvalExceededMaxSteps", loc)
            /\ stack' = <<>>
            /\ last' = Obs("step", loc, FALSE)
    /\ UNCHANGED <<lvalStack, disableTarget, assertFailed>>
step(loc) ==
    /\ calls < MaxStepCalls
    /\ steps' = steps + 1
    /\ calls' = calls + 1
    /\ IF stepSucceeds
       THEN /\ diags' = diags
            /\ last' = Obs("step", loc, TRUE)
       ELSE /\ diags' = addDiag("ConstEvalExceededMaxSteps", loc)
            /\ last' = Obs("step", loc, FALSE)
    /\ UNCHANGED <<stack, lvalStack, disableTarget, assertFailed>>

-----------------------------------------------------------------------------
(* Built-in array methods: ArrayMethods.cpp.  The receiver args[0] is given *)
(* by lval: "ok" when its evaluation yields a value or a reference, "bad"  *)
(* when it fails.  An evaluated argument is <<>> when its evaluation       *)
(* failed and <<v>> when it gave v.  An index value is a record telling    *)
(* whether it is a plain integer, has unknown bits, or needs more than 32  *)
(* bits.                                                                   *)

Elems == {1, 2}
Keys == {1, 2}
LVals == {"ok", "bad"}
CVs == {<<v>> : v \in Elems}
Integer(i) == [kind |-> "int", v |-> i]
Unknown == [kind |-> "unknown", v |-> 0]
Wide == [kind |-> "wide", v |-> 0]
CIs == {<<Unknown>>, <<Wide>>} \cup {<<Integer(i)>> : i \in -1..(MaxQLen + 1)}

\* the type int: 32 bits, signed
IntType == [width |-> 32, signed |-> TRUE]

\* SVInt(bits, value, isSigned)
SVInt(bits, value, isSigned) ==
    [width |-> bits, value |-> value, signed |-> isSigned]

\* SVInt::as<int32_t>: <<>> for nullopt
as_int32(ci) == IF ci.kind = "int" THEN <<ci.v>> ELSE <<>>

\* Type::getDefaultValue of a container type: the empty container
getDefaultValue(k) == << >>

\* a queue does not hold more elements than its bound, 0 meaning none
withinBound(qq, bound) == bound = 0 \/ Len(qq) <= bound

\* what a method call leaves in `last`: also the receiver before the call
Receiver ==
    CASE kind = "QueueType" -> q
      [] kind = "DynamicArrayType" -> dyn
      [] kind = "FixedSizeUnpackedArrayType" -> dyn
      [] OTHER -> map
MObs(op, arg, ret) == [op |-> op, arg |-> arg, ret |-> ret, pre |-> Receiver]
Follows ==
    prev' = IF "pre" \notin DOMAIN last THEN [op |-> last.op]
            ELSE [op |-> last.op, arg |-> last.arg, pre |-> last.pre]

\* a method's diagnostic, added while the frame stack is as it is
methodDiag(code) ==
    /\ Len(diags) < MaxDiags
    /\ diags' = addDiag(code, 1)

\* std::deque operations, positions counted from 0
pushedSwapped(front, qq, v) == IF front THEN Append(qq, v) ELSE <<v>> \o qq
pushed(front, qq, v) == IF front THEN <<v>> \o qq ELSE Append(qq, v)

popResultSwapped(front, qq) == IF front THEN qq[Len(qq)] ELSE qq[1]
popResult(front, qq) == IF front THEN qq[1] ELSE qq[Len(qq)]

poppedSwapped(front, qq) ==
    IF front THEN SubSeq(qq, 1, Len(qq) - 1) ELSE Tail(qq)
popped(front, qq) == IF front THEN Tail(qq) ELSE SubSeq(qq, 1, Len(qq) - 1)

insertedAfter(qq, index, v) ==
    SubSeq(qq, 1, Min(index + 1, Len(qq))) \o <<v>>
        \o SubSeq(qq, Min(index + 1, Len(qq)) + 1, Len(qq))
inserted(qq, index, v) ==
    SubSeq(qq, 1, index) \o <<v>> \o SubSeq(qq, index + 1, Len(qq))

erasedToEnd(qq, index) == SubSeq(qq, 1, index)
erased(qq, index) == SubSeq(qq, 1, index) \o SubSeq(qq, index + 2, Len(qq))

clearedButFirst(qq) == SubSeq(qq, 1, Min(1, Len(qq)))
cleared(qq) == << >>

\* the index tests of insert and of delete
insertIndexBadAsDelete(index, qq) ==
    index = <<>> \/ index[1] < 0 \/ index[1] >= Len(qq)
insertIndexBad(index, qq) ==
    index = <<>> \/ index[1] < 0 \/ index[1] >= Len(qq) + 1

deleteIndexBadAsInsert(index, qq) ==
    index = <<>> \/ index[1] < 0 \/ index[1] >= Len(qq) + 1
deleteIndexBad(index, qq) ==
    index = <<>> \/ index[1] < 0 \/ index[1] >= Len(qq)

MethodFrame == UNCHANGED <<steps, stack, lvalStack, disableTarget, calls,
                           kind, maxBound, elemType>>

\* QueuePopMethod::eval
QueuePop(front, lval) ==
    LET name == IF front THEN "pop_front" ELSE "pop_back"
        arg == [lval |-> lval]
    IN /\ kind = "QueueType"
       /\ IF lval = "bad"
          THEN /\ last' = MObs(name, arg, Null)
               /\ UNCHANGED <<q, diags>>
          ELSE IF q = <<>>
          THEN /\ methodDiag("ConstEvalEmptyQueue")
               /\ last' = MObs(name, arg, DefaultValue)
               /\ q' = q
          ELSE /\ last' = MObs(name, arg, popResult(front, q))
               /\ q' = popped(front, q)
               /\ diags' = diags
       /\ Follows
       /\ MethodFrame
       /\ UNCHANGED <<dyn, map, assertFailed>>

\* QueuePushMethod::eval
QueuePushUnresolved(front, lval, cv) ==
    LET name == IF front THEN "push_front" ELSE "push_back"
        arg == [lval |-> lval, cv |-> cv]
    IN /\ kind = "QueueType"
       /\ IF cv = <<>>
          THEN q' = q
          ELSE /\ Len(q) < MaxQLen
               /\ q' = pushed(front, q, cv[1])
       /\ last' = MObs(name, arg, Null)
       /\ Follows
       /\ MethodFrame
       /\ UNCHANGED <<dyn, map, diags, assertFailed>>
QueuePush(front, lval, cv) ==
    LET name == IF front THEN "push_front" ELSE "push_back"
        arg == [lval |-> lval, cv |-> cv]
    IN /\ kind = "QueueType"
       /\ IF lval = "bad" \/ cv = <<>>
          THEN q' = q
          ELSE /\ Len(q) < MaxQLen
               /\ q' = pushed(front, q, cv[1])
       /\ last' = MObs(name, arg, Null)
       /\ Follows
       /\ MethodFrame
       /\ UNCHANGED <<dyn, map, diags, assertFailed>>

\* QueueInsertMethod::eval
QueueInsert(lval, ci, cv) ==
    LET arg == [lval |-> lval, ci |-> ci, cv |-> cv]
    IN /\ kind = "QueueType"
       /\ IF lval = "bad" \/ ci = <<>> \/ cv = <<>>
          THEN UNCHANGED <<q, diags>>
          ELSE LET index == as_int32(ci[1])
               IN IF insertIndexBad(index, q)
                  THEN /\ methodDiag("ConstEvalDynamicArrayIndex")
                       /\ q' = q
                  ELSE /\ Len(q) < MaxQLen
                       /\ q' = inserted(q, index[1], cv[1])
                       /\ diags' = diags
       /\ last' = MObs("insert", arg, Null)
       /\ Follows
       /\ MethodFrame
       /\ UNCHANGED <<dyn, map, assertFailed>>

\* QueueDeleteMethod::eval; args holds the evaluated index argument, if any
QueueDelete(lval, args) ==
    LET arg == [lval |-> lval, args |-> args]
    IN /\ kind = "QueueType"
       /\ IF lval = "bad"
          THEN UNCHANGED <<q, diags, assertFailed>>
          ELSE IF Len(args) = 0
          THEN /\ q' = cleared(q)
               /\ UNCHANGED <<diags, assertFailed>>
          ELSE IF args[1] = <<>>
          THEN \* ci.integer() on a value that is not an integer throws
               /\ assertFailed' = TRUE
               /\ UNCHANGED <<q, diags>>
          ELSE LET index == as_int32(args[1][1])
               IN /\ IF deleteIndexBad(index, q)
                     THEN /\ methodDiag("ConstEvalDynamicArrayIndex")
                          /\ q' = q
                     ELSE /\ q' = erased(q, index[1])
                          /\ diags' = diags
                  /\ UNCHANGED assertFailed
       /\ last' = MObs("delete", arg, Null)
       /\ Follows
       /\ MethodFrame
       /\ UNCHANGED <<dyn, map>>

\* DynArrayDeleteMethod::eval
DynArrayDelete(lval) ==
    /\ kind = "DynamicArrayType"
    /\ IF lval = "bad"
       THEN dyn' = dyn
       ELSE dyn' = getDefaultValue(kind)
    /\ last' = MObs("delete", [lval |-> lval, args |-> <<>>], Null)
    /\ Follows
    /\ MethodFrame
    /\ UNCHANGED <<q, map, diags, assertFailed>>

\* AssocArrayDeleteMethod::eval; args holds the evaluated key, if any
AssocArrayDeleteClearing(lval, args) ==
    /\ kind = "AssociativeArrayType"
    /\ IF lval = "bad"
       THEN map' = map
       ELSE IF Len(args) > 0
       THEN IF args[1] = <<>>
            THEN map' = map
            ELSE map' = getDefaultValue(kind)
       ELSE map' = getDefaultValue(kind)
    /\ last' = MObs("delete", [lval |-> lval, args |-> args], Null)
    /\ Follows
    /\ MethodFrame
    /\ UNCHANGED <<q, dyn, diags, assertFailed>>
AssocArrayDelete(lval, args) ==
    /\ kind = "AssociativeArrayType"
    /\ IF lval = "bad"
       THEN map' = map
       ELSE IF Len(args) > 0
       THEN IF args[1] = <<>>
            THEN map' = map
            ELSE map' = [k \in DOMAIN map \ {args[1][1]} |-> map[k]]
       ELSE map' = getDefaultValue(kind)
    /\ last' = MObs("delete", [lval |-> lval, args |-> args], Null)
    /\ Follows
    /\ MethodFrame
    /\ UNCHANGED <<q, dyn, diags, assertFailed>>

\* ConstantValue::size
sizePlusOne(val) == Cardinality(DOMAIN val) + 1
size(val) == Cardinality(DOMAIN val)

\* ArraySizeMethod::eval, registered for dynamic arrays, associative arrays
\* and queues
ArraySize(lval) ==
    /\ kind \in {"DynamicArrayType", "AssociativeArrayType", "QueueType"}
    /\ last' = MObs("size", [lval |-> lval],
                    IF lval = "bad" THEN Null
                    ELSE SVInt(32, size(Receiver), TRUE))
    /\ Follows
    /\ MethodFrame
    /\ UNCHANGED <<q, dyn, map, diags, assertFailed>>


\* ArraySizeMethod::eval as registered under the name num, for associative
\* arrays
AssocArrayNum(lval) ==
    /\ kind = "AssociativeArrayType"
    /\ last' = MObs("num", [lval |-> lval],
                    IF lval = "bad" THEN Null
                    ELSE SVInt(32, size(Receiver), TRUE))
    /\ Follows
    /\ MethodFrame
    /\ UNCHANGED <<q, dyn, map, diags, assertFailed>>

\* std::map::count of a key
countInverted(m, index) == IF index \in DOMAIN m THEN 0 ELSE 1
count(m, index) == IF index \in DOMAIN m THEN 1 ELSE 0

\* AssocArrayExistsMethod::eval; array tells whether args[0] evaluated,
\* index is the evaluated key, <<>> when its evaluation failed
AssocArrayExists(array, index) ==
    /\ kind = "AssociativeArrayType"
    /\ last' = MObs("exists", [lval |-> array, args |-> <<index>>],
                    IF array = "bad" \/ index = <<>> THEN Null
                    ELSE SVInt(32, count(map, index[1]), TRUE))
    /\ Follows
    /\ MethodFrame
    /\ UNCHANGED <<q, dyn, map, diags, assertFailed>>

\* SystemSubroutine::notConst: the call is reported as not constant
notConst == methodDiag("SysFuncNotConst")

TraversalNames == {"first", "last", "next", "prev"}

\* AssocArrayTraversalMethod::eval: no value, whatever the container holds
traversalInKeyOrder(name, m, index) ==
    IF m = << >> THEN SVInt(32, 0, TRUE) ELSE SVInt(32, 1, TRUE)
traversal(name, m, index) == Null

\* AssocArrayTraversalMethod: verifyConstant, whose result decides whether
\* the call is constant, and eval; index is the value of the out-index
\* argument, which eval does not store to
AssocArrayTraversal(name, array, index) ==
    /\ kind = "AssociativeArrayType"
    /\ notConst
    /\ last' = MObs(name, [lval |-> array, args |-> <<index>>],
                    [constant |-> FALSE,
                     value |-> traversal(name, map, index),
                     index |-> index])
    /\ Follows
    /\ MethodFrame
    /\ UNCHANGED <<q, dyn, map, assertFailed>>

\* the assignment a[k] = v to an element of an associative array: the key
\* is created when it is absent
AssocAssign(k, v) ==
    /\ kind = "AssociativeArrayType"
    /\ map' = [j \in DOMAIN map \cup {k} |-> IF j = k THEN v ELSE map[j]]
    /\ last' = MObs("assign", [lval |-> "ok", args |-> <<<<k>>>>, value |-> v],
                    Null)
    /\ Follows
    /\ MethodFrame
    /\ UNCHANGED <<q, dyn, diags, assertFailed>>

-----------------------------------------------------------------------------
(* Reductions: ArrayReductionMethod.  An element is the bit pattern of an  *)
(* integer of the element type; a `with` expression is a record giving     *)
(* what it computes from the iterator variable and its own type.           *)

RECURSIVE Pow2(_)
Pow2(n) == IF n = 0 THEN 1 ELSE 2 * Pow2(n - 1)

\* the values of an integer type
ValuesOf(type) == 0..(Pow2(type.width) - 1)

\* SVInt arithmetic is done at the width of the left operand
wrap(value, width) == value % Pow2(width)

bit(name, x, y) ==
    CASE name = "or" -> IF x + y > 0 THEN 1 ELSE 0
      [] name = "and" -> x * y
      [] name = "xor" -> (x + y) % 2

RECURSIVE bits(_, _, _, _)
bits(name, x, y, n) ==
    IF n = 0 THEN 0
    ELSE bit(name, x % 2, y % 2) + 2 * bits(name, x \div 2, y \div 2, n - 1)

ReductionNames == {"or", "and", "xor", "sum", "product"}

\* the operators registered with the reductions: l |= r, l &= r, l ^= r,
\* l += r, l *= r
op(name, l, r) ==
    SVInt(l.width,
          CASE name \in {"or", "and", "xor"} ->
                   bits(name, l.value, r.value, l.width)
            [] name = "sum" -> wrap(l.value + r.value, l.width)
            [] name = "product" -> wrap(l.value * r.value, l.width),
          l.signed)

\* the iterator variable of a `with` clause
IterVar == "item"

\* the `with` expressions tried: item + 1 in three unsigned bits; item's
\* low bit; and an expression whose evaluation fails when item is 0
IterExprs ==
    {[fn |-> "plus1", width |-> 3, signed |-> FALSE],
     [fn |-> "lowbit", width |-> 1, signed |-> FALSE],
     [fn |-> "nonzero", width |-> 2, signed |-> TRUE]}

\* iterExpr->eval with the iterator variable holding item: <<>> on failure
evalIter(e, item) ==
    CASE e.fn = "plus1" -> <<SVInt(e.width, wrap(item + 1, e.width), e.signed)>>
      [] e.fn = "lowbit" -> <<SVInt(e.width, item % 2, e.signed)>>
      [] e.fn = "nonzero" ->
             IF item = 0 THEN <<>>
             ELSE <<SVInt(e.width, wrap(item, e.width), e.signed)>>

\* ConstantValue::integer of an element
integer(item) == SVInt(elemType.width, item, elemType.signed)

\* begin(arr) .. end(arr): the elements in container order, an associative
\* array by ascending key
RECURSIVE elements(_)
elements(val) ==
    IF kind # "AssociativeArrayType" THEN val
    ELSE IF DOMAIN val = {} THEN <<>>
    ELSE LET k == CHOOSE k \in DOMAIN val : \A j \in DOMAIN val : k <= j
         IN <<val[k]>> \o elements([j \in DOMAIN val \ {k} |-> val[j]])

\* the loop of a reduction: op(result, x) for each further x in turn
RECURSIVE foldedFromZero(_, _, _)
foldedFromZero(name, result, rest) ==
    IF rest = <<>> THEN op(name, SVInt(result.width, 0, result.signed), result)
    ELSE foldedFromZero(name, op(name, result, Head(rest)), Tail(rest))
RECURSIVE folded(_, _, _)
folded(name, result, rest) ==
    IF rest = <<>> THEN result
    ELSE folded(name, op(name, result, Head(rest)), Tail(rest))

\* the result of a reduction over an empty container
emptyResultOfElemType(iterExpr) == SVInt(elemType.width, 0, elemType.signed)
emptyResult(iterExpr) ==
    LET type == IF iterExpr # <<>> THEN iterExpr[1] ELSE elemType
    IN SVInt(type.width, 0, type.signed)

\* the top frame with the iterator variable holding item
withIterVar(st, item) ==
    LET top == st[Len(st)]
    IN [st EXCEPT ![Len(st)].temporaries =
            [s \in DOMAIN top.temporaries \cup {IterVar} |->
                IF s = IterVar THEN item ELSE top.temporaries[s]]]

\* ArrayReductionMethod::eval; iterExpr is <<>> without a `with` clause
ArrayReduction(name, array, iterExpr) ==
    LET arr == elements(Receiver)
        cvs == [i \in 1..Len(arr) |-> evalIter(iterExpr[1], arr[i])]
        failing == {i \in 1..Len(arr) : cvs[i] = <<>>}
        stop == IF failing = {} THEN Len(arr)
                ELSE CHOOSE i \in failing : \A j \in failing : i <= j
        vals == IF iterExpr # <<>> THEN [i \in 1..Len(arr) |-> cvs[i][1]]
                ELSE [i \in 1..Len(arr) |-> integer(arr[i])]
        asserts == array = "ok" /\ iterExpr # <<>> /\ arr # <<>> /\ stack = <<>>
        ret == IF array = "bad" THEN Null
               ELSE IF arr = <<>> THEN emptyResult(iterExpr)
               ELSE IF asserts THEN Null
               ELSE IF iterExpr # <<>> /\ failing # {} THEN Null
               ELSE folded(name, vals[1], Tail(vals))
    IN /\ kind \in {"FixedSizeUnpackedArrayType", "DynamicArrayType",
                    "AssociativeArrayType", "QueueType"}
       /\ assertFailed' = (assertFailed \/ asserts)
       /\ stack' = IF array = "ok" /\ iterExpr # <<>> /\ arr # <<>> /\ ~asserts
                   THEN withIterVar(stack, arr[stop])
                   ELSE stack
       /\ last' = MObs(name, [lval |-> array, iterExpr |-> iterExpr], ret)
       /\ UNCHANGED <<steps, lvalStack, diags, disableTarget, calls, valVars>>

-----------------------------------------------------------------------------
(* Sorting: ArraySortMethod *)

\* an SVInt as a number: two's complement when signed
numeric(sv) ==
    IF sv.signed /\ sv.value >= Pow2(sv.width - 1)
    THEN sv.value - Pow2(sv.width)
    ELSE sv.value

\* ConstantValue's operator< on two integers
less(a, b) == numeric(a) < numeric(b)

\* what the predicate of a sort compares: the element, or the value of the
\* `with` expression for it
keyOfElement(iterExpr, item) == integer(item)
keyOf(iterExpr, item) ==
    IF iterExpr = <<>> THEN integer(item) ELSE evalIter(iterExpr[1], item)[1]

pred(iterExpr, a, b) == less(keyOf(iterExpr, a), keyOf(iterExpr, b))

perms(range) ==
    IF range = <<>> THEN {<<>>}
    ELSE {[i \in 1..Len(range) |-> range[p[i]]] :
              p \in Permutations(1..Len(range))}

\* std::sort(first, last, pred): some arrangement of the range in which no
\* element comes after one that pred puts it before; which one, among
\* elements that pred does not order, is not specified
std_sort(range, iterExpr) ==
    {r \in perms(range) :
        \A i, j \in 1..Len(r) : i < j => ~pred(iterExpr, r[j], r[i])}

\* the target after std::sort on begin/end, or on rbegin/rend when reversed
sortTargetForwardOnly(reversed, target, iterExpr) == std_sort(target, iterExpr)
sortTarget(reversed, target, iterExpr) ==
    IF reversed
    THEN {Reverse(r) : r \in std_sort(Reverse(target), iterExpr)}
    ELSE std_sort(target, iterExpr)

Range(s) == {s[i] : i \in 1..Len(s)}

\* ArraySortMethod::eval, registered as sort and, reversed, as rsort
ArraySort(reversed, lval, iterExpr) ==
    LET target == Receiver
        asserts == lval = "ok" /\ iterExpr # <<>> /\ stack = <<>>
    IN /\ kind \in {"FixedSizeUnpackedArrayType", "DynamicArrayType",
                    "QueueType"}
       /\ assertFailed' = (assertFailed \/ asserts)
       /\ IF lval = "bad" \/ asserts
          THEN UNCHANGED <<q, dyn, stack>>
          ELSE /\ \E r \in sortTarget(reversed, target, iterExpr) :
                      IF kind = "QueueType"
                      THEN q' = r /\ dyn' = dyn
                      ELSE dyn' = r /\ q' = q
               \* the iterator variable holds the default value until the
               \* predicate is called, then the element compared last
               /\ IF iterExpr = <<>>
                  THEN stack' = stack
                  ELSE \E item \in IF Len(target) < 2 THEN {DefaultValue}
                                   ELSE Range(target) :
                           stack' = withIterVar(stack, item)
       /\ last' = MObs(IF reversed THEN "rsort" ELSE "sort",
                       [lval |-> lval, iterExpr |-> iterExpr], Null)
       /\ UNCHANGED <<steps, lvalStack, diags, disableTarget, calls, kind,
                      maxBound, map, elemType>>
-----------------------------------------------------------------------------
(* Initial states *)

\* the state of a constructed EvalContext
InitSession ==
    /\ steps = 0
    /\ stack = <<>>
    /\ lvalStack = <<>>
    /\ diags = <<>>
    /\ disableTarget = Null
    /\ assertFailed = FALSE
    /\ calls = 0
    /\ last = NoEntry
    /\ prev = NoEntry

InitValues ==
    /\ kind = "QueueType"
    /\ elemType = IntType
    /\ q = <<>>
    /\ maxBound = 0
    /\ dyn = <<>>
    /\ map = << >>

-----------------------------------------------------------------------------
(* Spec: frames pushed, bound and popped call by call *)

\* calls come from the one evaluation that owns the session; it binds a
\* call's arguments right after pushFrame (reportFrame asserts that they are
\* bound), and nothing runs once an ASSERT has fired
Running == ~assertFailed /\ pc = "idle"
Callable == Running /\ \A i \in 1..Len(stack) : ArgsBound(stack[i])
Rest == UNCHANGED <<options, valVars, prev, pc, drv>>

Init ==
    /\ options \in [maxConstexprDepth : 0..MaxLimit,
                    maxConstexprSteps : {2},
                    maxConstexprBacktrace : {1}]
    /\ InitSession
    /\ InitValues
    /\ pc = "idle"
    /\ drv = Null

Reset == Running /\ reset /\ Rest

PushFrame ==
    \E subroutine \in Subroutines, callLocation \in CallLocations :
        Callable /\ pushFrame(subroutine, callLocation) /\ Rest

PushEmptyFrame == Callable /\ pushEmptyFrame /\ Rest

PopFrame == Callable /\ popFrame /\ Rest

\* the caller binds the argument of the call it has just pushed
BindArgument ==
    \E value \in {<<>>, <<1>>} :
        /\ Running
        /\ stack # <<>>
        /\ getArguments(stack[Len(stack)].subroutine) # <<>>
        /\ createLocal(getArguments(stack[Len(stack)].subroutine)[1], value)
        /\ Rest

Next ==
    \/ Reset
    \/ PushFrame
    \/ PushEmptyFrame
    \/ PopFrame
    \/ BindArgument

Spec == Init /\ [][Next]_vars

-----------------------------------------------------------------------------
(* SpecLocals: locals created, looked up and deleted in the frames of      *)
(* calls that take no argument and in frames pushed without a subroutine;  *)
(* `prev` is the call before the last one.                                 *)

RestLocals == UNCHANGED <<options, valVars, pc, drv>>

InitLocals ==
    /\ options \in [maxConstexprDepth : {MaxLimit},
                    maxConstexprSteps : {2},
                    maxConstexprBacktrace : {0}]
    /\ InitSession
    /\ InitValues
    /\ pc = "idle"
    /\ drv = Null

LocalsReset == Running /\ reset /\ prev' = last /\ RestLocals

LocalsPushFrame ==
    Running /\ Len(diags) = 0 /\ pushFrame("g", 1) /\ prev' = last /\ RestLocals

LocalsPushEmptyFrame ==
    /\ Running
    /\ Len(stack) < MaxLimit
    /\ pushEmptyFrame
    /\ prev' = last
    /\ RestLocals

LocalsPopFrame == Running /\ popFrame /\ prev' = last /\ RestLocals

CreateLocal ==
    \E symbol \in Symbols, value \in {<<>>, <<1>>} :
        Running /\ createLocal(symbol, value) /\ prev' = last /\ RestLocals

FindLocal ==
    \E symbol \in Symbols :
        Running /\ findLocal(symbol) /\ prev' = last /\ RestLocals

DeleteLocal ==
    \E symbol \in Symbols :
        Running /\ deleteLocal(symbol) /\ prev' = last /\ RestLocals

NextLocals ==
    \/ LocalsReset
    \/ LocalsPushFrame
    \/ LocalsPushEmptyFrame
    \/ LocalsPopFrame
    \/ CreateLocal
    \/ FindLocal
    \/ DeleteLocal

SpecLocals == InitLocals /\ [][NextLocals]_vars

-----------------------------------------------------------------------------
(* SpecSession: one session used for evaluation after evaluation: steps,   *)
(* a call, reference targets and a disable target, with reset() between;   *)
(* `prev` is the call before the last one.                                 *)

InitSessionUse ==
    /\ options \in [maxConstexprDepth : {1},
                    maxConstexprSteps : {2, MaxStepCalls},
                    maxConstexprBacktrace : {0}]
    /\ InitSession
    /\ InitValues
    /\ pc = "idle"
    /\ drv = Null

SessionReset == Running /\ reset /\ prev' = last /\ RestLocals

SessionStep == Running /\ step(1) /\ prev' = last /\ RestLocals

SessionPushFrame == Running /\ pushFrame("g", 1) /\ prev' = last /\ RestLocals

SessionPopFrame == Running /\ popFrame /\ prev' = last /\ RestLocals

PushLValue ==
    \E lval \in Targets :
        /\ Running
        /\ Len(lvalStack) < MaxLimit
        /\ pushLValue(lval)
        /\ prev' = last
        /\ RestLocals

PopLValue == Running /\ popLValue /\ prev' = last /\ RestLocals

GetTopLValue == Running /\ getTopLValue /\ prev' = last /\ RestLocals

SetDisableTarget ==
    Running /\ setDisableTarget("block", 1) /\ prev' = last /\ RestLocals

NextSession ==
    \/ SessionReset
    \/ SessionStep
    \/ SessionPushFrame
    \/ SessionPopFrame
    \/ PushLValue
    \/ PopLValue
    \/ GetTopLValue
    \/ SetDisableTarget

SpecSession == InitSessionUse /\ [][NextSession]_vars

-----------------------------------------------------------------------------
(* SpecReport: diagnostics added inside or outside a call and reported to  *)
(* the scope of a context that has, or has not, an assertion instance.     *)

RestReport == UNCHANGED <<options, valVars, pc, prev>>

DiagCodes == {"ConstEvalEmptyQueue", "ConstEvalNonConstVariable"}

InitReport ==
    /\ options \in [maxConstexprDepth : {1},
                    maxConstexprSteps : {2},
                    maxConstexprBacktrace : {0}]
    /\ InitSession
    /\ InitValues
    /\ pc = "idle"
    /\ drv \in [assertionInstance : BOOLEAN, scope : {<<>>}]

ReportReset == Running /\ reset /\ drv' = drv /\ RestReport

ReportPushFrame ==
    /\ Running
    /\ stack = <<>>
    /\ pushFrame("g", 1)
    /\ drv' = drv
    /\ RestReport

ReportPopFrame == Running /\ popFrame /\ drv' = drv /\ RestReport

ReportAddDiag ==
    \E code \in DiagCodes :
        /\ Running
        /\ Len(diags) <= MaxDiags
        /\ addDiagCall(code, 1)
        /\ drv' = drv
        /\ RestReport

\* the scope is followed until it holds twice the diagnostics that can be
\* pending
ReportDiags ==
    /\ Running
    /\ Len(drv.scope) <= MaxDiags
    /\ reportDiags
    /\ RestReport

NextReport ==
    \/ ReportReset
    \/ ReportPushFrame
    \/ ReportPopFrame
    \/ ReportAddDiag
    \/ ReportDiags

SpecReport == InitReport /\ [][NextReport]_vars

-----------------------------------------------------------------------------
(* SpecStep: the step counter, with calls coming and going meanwhile *)

InitStep ==
    /\ options \in [maxConstexprDepth : {1},
                    maxConstexprSteps : 0..(MaxStepCalls - 1),
                    maxConstexprBacktrace : {0, 1}]
    /\ InitSession
    /\ InitValues
    /\ pc = "idle"
    /\ drv = Null

Step == \E loc \in CallLocations : Callable /\ step(loc) /\ Rest

PushFrameG == Callable /\ pushFrame("g", 1) /\ Rest

NextStep ==
    \/ Reset
    \/ Step
    \/ PushFrameG
    \/ PopFrame

SpecStep == InitStep /\ [][NextStep]_vars

-----------------------------------------------------------------------------
(* SpecBacktrace: diagnostics added while calls are active, under every    *)
(* backtrace limit; the calls go on, or return, afterwards.  The depth     *)
(* limit is never reached here.                                            *)

InitBacktrace ==
    /\ options \in [maxConstexprDepth : {MaxFrames + 1},
                    maxConstexprSteps : {2},
                    maxConstexprBacktrace : 0..MaxLimit]
    /\ InitSession
    /\ InitValues
    /\ pc = "idle"
    /\ drv = Null

CallFrame ==
    \E subroutine \in Subroutines :
        /\ Callable
        /\ Len(stack) < MaxFrames
        /\ pushFrame(subroutine, 1)
        /\ Rest

\* an evaluation step fails and reports why; the evaluations followed here
\* add one diagnostic between two resets
AddDiag ==
    /\ Callable
    /\ diags = <<>>
    /\ addDiagCall("ConstEvalEmptyQueue", 1)
    /\ Rest

\* the top call's argument goes out of scope; it is bound again before the
\* frame is used
DeleteArgument ==
    /\ Callable
    /\ stack # <<>>
    /\ getArguments(stack[Len(stack)].subroutine) # <<>>
    /\ deleteLocal(getArguments(stack[Len(stack)].subroutine)[1])
    /\ Rest

NextBacktrace ==
    \/ Reset
    \/ CallFrame
    \/ PushEmptyFrame
    \/ PopFrame
    \/ BindArgument
    \/ DeleteArgument
    \/ AddDiag

SpecBacktrace == InitBacktrace /\ [][NextBacktrace]_vars
-----------------------------------------------------------------------------
(* SpecRec: one top-level evaluation of a call to a recursive function     *)
(* f(a) whose evaluation needs drv.need nested calls.  The top level may   *)
(* first push an empty frame; each call pushes its frame, binds its        *)
(* argument and, unless it is the innermost one, evaluates the next call;  *)
(* a call whose pushFrame fails returns failure, and every call that       *)
(* pushed a frame pops it on its way out, failed or not.                   *)

RestRec == UNCHANGED <<options, valVars, prev>>

InitRec ==
    /\ options \in [maxConstexprDepth : 1..MaxLimit,
                    maxConstexprSteps : {2},
                    maxConstexprBacktrace : {0, 1}]
    /\ InitSession
    /\ InitValues
    /\ pc = "top"
    /\ drv \in [need : 1..MaxNest, base : {0}, nest : {0}, pushes : {0},
                pops : {0}, failedAt : {0}]

\* the top-level evaluation pushes the empty frame its own locals live in
TopPushEmptyFrame ==
    /\ pc = "top"
    /\ drv.base = 0
    /\ pushEmptyFrame
    /\ drv' = [drv EXCEPT !.base = 1]
    /\ pc' = pc
    /\ RestRec

\* the top-level evaluation reaches the call expression
TopCall ==
    /\ pc = "top"
    /\ pc' = "call"
    /\ UNCHANGED <<ctxVars, last, drv>>
    /\ RestRec

\* a call expression is evaluated: its frame is pushed, or the push fails
RecPushFrame ==
    /\ pc = "call"
    /\ drv.nest < drv.need
    /\ pushFrame("f", 1)
    /\ IF last'.ret
       THEN /\ pc' = "bind"
            /\ drv' = [drv EXCEPT !.pushes = @ + 1]
       ELSE /\ pc' = "unwind"
            /\ drv' = [drv EXCEPT !.failedAt = drv.nest + 1]
    /\ RestRec

\* the callee's argument is bound in the new frame and its body starts
RecBindArgument ==
    /\ pc = "bind"
    /\ createLocal("a", <<drv.need - drv.nest>>)
    /\ drv' = [drv EXCEPT !.nest = @ + 1]
    /\ pc' = "call"
    /\ RestRec

\* the innermost call needs no further call: its body returns a value
RecBaseCase ==
    /\ pc = "call"
    /\ drv.nest = drv.need
    /\ pc' = "unwind"
    /\ UNCHANGED <<ctxVars, last, drv>>
    /\ RestRec

\* a call returns, with a value or with the failure of its callee
RecPopFrame ==
    /\ pc = "unwind"
    /\ drv.nest > 0
    /\ popFrame
    /\ drv' = [drv EXCEPT !.nest = @ - 1, !.pops = @ + 1]
    /\ pc' = pc
    /\ RestRec

\* the result reaches the top-level caller
RecDone ==
    /\ pc = "unwind"
    /\ drv.nest = 0
    /\ pc' = "done"
    /\ UNCHANGED <<ctxVars, last, drv>>
    /\ RestRec

NextRec ==
    \/ TopPushEmptyFrame
    \/ TopCall
    \/ RecPushFrame
    \/ RecBindArgument
    \/ RecBaseCase
    \/ RecPopFrame
    \/ RecDone

SpecRec == InitRec /\ [][NextRec]_vars

-----------------------------------------------------------------------------
(* SpecLoop: one compile-time loop.  Each iteration first calls step and   *)
(* stops the evaluation when step fails; the loop's own exit condition     *)
(* becomes true after drv.need iterations, or never (drv.exits = FALSE).   *)

InitLoop ==
    /\ options \in [maxConstexprDepth : {1},
                    maxConstexprSteps : 1..(MaxStepCalls - 1),
                    maxConstexprBacktrace : {0}]
    /\ InitSession
    /\ InitValues
    /\ pc = "start"
    /\ drv \in [need : 0..MaxIters, exits : BOOLEAN, iter : {0}, before : {0}]

\* the statements evaluated before the loop have each called step
LoopPrologue ==
    /\ pc = "start"
    /\ steps + 1 < options.maxConstexprSteps
    /\ step(1)
    /\ drv' = [drv EXCEPT !.before = @ + 1]
    /\ pc' = pc
    /\ RestRec

LoopEnter ==
    /\ pc = "start"
    /\ pc' = "loop"
    /\ UNCHANGED <<ctxVars, last, drv>>
    /\ RestRec

\* the exit condition holds: the loop completes
LoopExit ==
    /\ pc = "loop"
    /\ drv.exits
    /\ drv.iter = drv.need
    /\ pc' = "done"
    /\ UNCHANGED <<ctxVars, last, drv>>
    /\ RestRec

\* one more iteration: step is called, and its failure aborts the loop
LoopIteration ==
    /\ pc = "loop"
    /\ ~(drv.exits /\ drv.iter = drv.need)
    /\ step(1)
    /\ IF last'.ret
       THEN pc' = pc /\ drv' = [drv EXCEPT !.iter = @ + 1]
       ELSE pc' = "aborted" /\ drv' = drv
    /\ RestRec

NextLoop ==
    \/ LoopPrologue
    \/ LoopEnter
    \/ LoopExit
    \/ LoopIteration

\* the evaluation is synchronous: a loop that can take a step takes it
SpecLoop == InitLoop /\ [][NextLoop]_vars /\ WF_vars(NextLoop)

-----------------------------------------------------------------------------
(* SpecMethods: the built-in methods called, one after the other, on one   *)
(* receiver by one evaluation; the session is reset between evaluations.   *)

RestMethods == UNCHANGED <<options, pc, drv>>

SeqsUpTo(S, n) == UNION {[1..k -> S] : k \in 0..n}

InitMethods ==
    /\ options \in [maxConstexprDepth : {1},
                    maxConstexprSteps : {2},
                    maxConstexprBacktrace : {0}]
    /\ InitSession
    /\ pc = "idle"
    /\ drv = Null
    /\ elemType = IntType
    /\ \/ /\ kind = "QueueType"
          /\ q = <<>>
          /\ maxBound \in {0, 2}
          /\ dyn = <<>>
          /\ map = << >>
       \/ /\ kind = "DynamicArrayType"
          /\ dyn \in SeqsUpTo(Elems, MaxQLen)
          /\ q = <<>>
          /\ maxBound = 0
          /\ map = << >>
       \/ /\ kind = "AssociativeArrayType"
          /\ map \in UNION {[D -> Elems] : D \in SUBSET Keys}
          /\ q = <<>>
          /\ maxBound = 0
          /\ dyn = <<>>

MethodsReset == Running /\ reset /\ UNCHANGED <<valVars, prev>> /\ RestMethods

\* the arguments of a call: all evaluated, or one whose evaluation failed
PushArgs ==
    {<<"ok", cv>> : cv \in CVs} \cup {<<"bad", <<1>>>>, <<"ok", <<>>>>}
InsertArgs ==
    {<<"ok", ci, cv>> : ci \in CIs, cv \in CVs}
        \cup {<<"bad", <<Integer(0)>>, <<1>>>>, <<"ok", <<>>, <<1>>>>,
              <<"ok", <<Integer(0)>>, <<>>>>}
QueueDeleteArgs ==
    {<<"ok", <<>>>>, <<"bad", <<>>>>, <<"bad", <<<<Integer(0)>>>>>>,
     <<"ok", <<<<>>>>>>}
        \cup {<<"ok", <<ci>>>> : ci \in CIs}

PopCall ==
    \E front \in BOOLEAN, lval \in LVals :
        Running /\ QueuePop(front, lval) /\ RestMethods

PushCall ==
    \E front \in BOOLEAN, a \in PushArgs :
        Running /\ QueuePush(front, a[1], a[2]) /\ RestMethods

InsertCall ==
    \E a \in InsertArgs :
        Running /\ QueueInsert(a[1], a[2], a[3]) /\ RestMethods

QueueDeleteCall ==
    \E a \in QueueDeleteArgs :
        Running /\ QueueDelete(a[1], a[2]) /\ RestMethods

DynArrayDeleteCall ==
    \E lval \in LVals : Running /\ DynArrayDelete(lval) /\ RestMethods

AssocArrayDeleteCall ==
    \E lval \in LVals, args \in {<<>>} \cup {<<<<k>>>> : k \in Keys} :
        Running /\ AssocArrayDelete(lval, args) /\ RestMethods

SizeCall == \E lval \in LVals : Running /\ ArraySize(lval) /\ RestMethods

NumCall == \E lval \in LVals : Running /\ AssocArrayNum(lval) /\ RestMethods

ExistsCall ==
    \E array \in LVals, index \in {<<>>} \cup {<<k>> : k \in Keys} :
        Running /\ AssocArrayExists(array, index) /\ RestMethods

AssocAssignCall ==
    \E k \in Keys, v \in Elems : Running /\ AssocAssign(k, v) /\ RestMethods

TraversalCall ==
    \E name \in TraversalNames, index \in Keys :
        Running /\ AssocArrayTraversal(name, "ok", <<index>>) /\ RestMethods

NextMethods ==
    \/ MethodsReset
    \/ PopCall
    \/ PushCall
    \/ InsertCall
    \/ QueueDeleteCall
    \/ DynArrayDeleteCall
    \/ AssocArrayDeleteCall
    \/ SizeCall
    \/ NumCall
    \/ ExistsCall
    \/ AssocAssignCall
    \/ TraversalCall

SpecMethods == InitMethods /\ [][NextMethods]_vars

-----------------------------------------------------------------------------
(* SpecReduce: reductions called on a container of any of the four kinds,  *)
(* by an evaluation that may have pushed its top-level frame.              *)

ElemTypes == {[width |-> 1, signed |-> FALSE], [width |-> 2, signed |-> TRUE]}

\* a receiver of the given kinds holding elements of its element type
InitReceiver(kinds) ==
    /\ elemType \in ElemTypes
    /\ kind \in kinds
    /\ maxBound = 0
    /\ q \in IF kind = "QueueType"
             THEN SeqsUpTo(ValuesOf(elemType), MaxQLen) ELSE {<<>>}
    /\ dyn \in IF kind \in {"DynamicArrayType", "FixedSizeUnpackedArrayType"}
               THEN SeqsUpTo(ValuesOf(elemType), MaxQLen) ELSE {<<>>}
    /\ map \in IF kind = "AssociativeArrayType"
               THEN UNION {[D -> ValuesOf(elemType)] : D \in SUBSET Keys}
               ELSE {<< >>}

InitReduce ==
    /\ options \in [maxConstexprDepth : {1},
                    maxConstexprSteps : {2},
                    maxConstexprBacktrace : {0}]
    /\ InitSession
    /\ pc = "idle"
    /\ drv = Null
    /\ InitReceiver({"FixedSizeUnpackedArrayType", "DynamicArrayType",
                     "AssociativeArrayType", "QueueType"})

\* the top-level evaluation pushes the frame that holds iterator variables
TopFrame == Running /\ stack = <<>> /\ pushEmptyFrame /\ Rest

\* the `with` clause of a call: none, or one of the expressions
IterArgs == {<<>>} \cup {<<e>> : e \in IterExprs}

\* the receiver and the clause of a call: every clause on a receiver that
\* evaluates, and a receiver whose evaluation fails
ReductionArgs == {<<"ok", iterExpr>> : iterExpr \in IterArgs} \cup {<<"bad", <<>>>>}

\* this specification does not follow the call before the last one
ReductionCall ==
    \E name \in ReductionNames, a \in ReductionArgs :
        /\ Running
        /\ ArrayReduction(name, a[1], a[2])
        /\ prev' = prev
        /\ RestMethods

NextReduce ==
    \/ MethodsReset
    \/ TopFrame
    \/ ReductionCall

SpecReduce == InitReduce /\ [][NextReduce]_vars
-----------------------------------------------------------------------------
(* SpecSelect: element selects, in and out of range, evaluated on a        *)
(* container of any of the four kinds; an evaluation that failed hard is   *)
(* over, and the session is reset before the next one.                     *)

\* Type::getDefaultValue of the element type
elementDefault == SVInt(elemType.width, DefaultValue, elemType.signed)

\* whether the container has an element at the index: a position counted
\* from 0, or a key
inRange(val, index) ==
    IF kind = "AssociativeArrayType" THEN index \in DOMAIN val
    ELSE 0 <= index /\ index < Len(val)

\* whether a select out of the range of a container of kind k fails softly
softFailOfAnyKind(k) == TRUE
softFailOf(k) == k # "FixedSizeUnpackedArrayType"

\* ElementSelectExpression::evalIndex: the selected position or key, <<>>
\* for nullopt, and the softFail flag
evalIndex(val, index) ==
    [range |-> IF inRange(val, index) THEN <<index>> ELSE <<>>,
     softFail |-> ~inRange(val, index) /\ softFailOf(kind)]

IndexDiag(k) ==
    CASE k = "FixedSizeUnpackedArrayType" -> "ConstEvalArrayIndexInvalid"
      [] k = "DynamicArrayType" -> "ConstEvalDynamicArrayIndex"
      [] k = "QueueType" -> "ConstEvalQueueIndex"
      [] OTHER -> "ConstEvalAssociativeElementNotFound"

\* the severity of a diagnostic: an error makes the evaluation fail
Fatal(code) == code = "ConstEvalArrayIndexInvalid"

\* ElementSelectExpression::evalImpl
ElementSelect(index) ==
    LET val == Receiver
        r == evalIndex(val, index)
        at == IF kind = "AssociativeArrayType" THEN index ELSE index + 1
    IN /\ last' = MObs("select", index,
                       IF r.range # <<>> THEN integer(val[at])
                       ELSE IF r.softFail THEN elementDefault
                       ELSE Null)
       /\ diags' = IF r.range # <<>> THEN diags ELSE addDiag(IndexDiag(kind), 1)
       /\ MethodFrame
       /\ UNCHANGED <<q, dyn, map, assertFailed>>

InitSelect ==
    /\ options \in [maxConstexprDepth : {1},
                    maxConstexprSteps : {2},
                    maxConstexprBacktrace : {0}]
    /\ InitSession
    /\ pc = "idle"
    /\ drv = Null
    /\ InitReceiver({"FixedSizeUnpackedArrayType", "DynamicArrayType",
                     "AssociativeArrayType", "QueueType"})

RestSelect == UNCHANGED <<options, prev, drv>>

\* the driver starts the next evaluation on the reset session
SelectReset ==
    /\ ~assertFailed
    /\ pc \in {"idle", "aborted"}
    /\ reset
    /\ pc' = "idle"
    /\ UNCHANGED valVars
    /\ RestSelect

\* an evaluation selects an element and goes on unless it got no value
SelectCall ==
    \E index \in -1..MaxQLen :
        /\ Running
        /\ Len(diags) <= MaxDiags
        /\ ElementSelect(index)
        /\ pc' = IF last'.ret = Null THEN "aborted" ELSE "idle"
        /\ RestSelect

NextSelect ==
    \/ SelectReset
    \/ SelectCall

SpecSelect == InitSelect /\ [][NextSelect]_vars

-----------------------------------------------------------------------------
(* SpecAbort: an evaluation that binds locals, registers reference targets *)
(* and pushes to and pops from a queue between its steps and calls; it is  *)
(* over when step or pushFrame fails, and the driver resets the session    *)
(* before the next evaluation.  The queue outlives the evaluations.        *)

RestAbort == UNCHANGED <<options, drv>>

InitAbort ==
    /\ options \in [maxConstexprDepth : {1},
                    maxConstexprSteps : {2, MaxStepCalls},
                    maxConstexprBacktrace : {0}]
    /\ InitSession
    /\ InitValues
    /\ pc = "idle"
    /\ drv = Null

AbortReset ==
    /\ ~assertFailed
    /\ pc \in {"idle", "aborted"}
    /\ reset
    /\ pc' = "idle"
    /\ UNCHANGED <<valVars, prev>>
    /\ RestAbort

AbortTopFrame ==
    /\ Running
    /\ stack = <<>>
    /\ pushEmptyFrame
    /\ UNCHANGED <<valVars, prev, pc>>
    /\ RestAbort

AbortCreateLocal ==
    /\ Running
    /\ stack # <<>>
    /\ createLocal("t", <<1>>)
    /\ UNCHANGED <<valVars, prev, pc>>
    /\ RestAbort

AbortPushLValue ==
    /\ Running
    /\ lvalStack = <<>>
    /\ pushLValue("x")
    /\ UNCHANGED <<valVars, prev, pc>>
    /\ RestAbort

AbortQueuePush ==
    \E cv \in CVs :
        Running /\ QueuePush(FALSE, "ok", cv) /\ pc' = pc /\ RestAbort

AbortQueuePop == Running /\ QueuePop(TRUE, "ok") /\ pc' = pc /\ RestAbort

AbortStep ==
    /\ Running
    /\ step(1)
    /\ pc' = IF last'.ret THEN "idle" ELSE "aborted"
    /\ UNCHANGED <<valVars, prev>>
    /\ RestAbort

AbortPushFrame ==
    /\ Running
    /\ pushFrame("g", 1)
    /\ pc' = IF last'.ret THEN "idle" ELSE "aborted"
    /\ UNCHANGED <<valVars, prev>>
    /\ RestAbort

NextAbort ==
    \/ AbortReset
    \/ AbortTopFrame
    \/ AbortCreateLocal
    \/ AbortPushLValue
    \/ AbortQueuePush
    \/ AbortQueuePop
    \/ AbortStep
    \/ AbortPushFrame

SpecAbort == InitAbort /\ [][NextAbort]_vars

-----------------------------------------------------------------------------
(* SpecShared: two evaluations in flight, A and B, each a call that binds  *)
(* a local to its own value, takes a step, reads the local back and        *)
(* returns.  They use one session between them, or one session each; the   *)
(* session variables are those of the session the running evaluation uses, *)
(* and drv holds which evaluation runs, the session of the other one and   *)
(* what each evaluation got.                                               *)

Evaluations == {"A", "B"}
Other(e) == IF e = "A" THEN "B" ELSE "A"
OwnValue(e) == IF e = "A" THEN 1 ELSE 2

\* the fields of the session in use
Session ==
    [steps |-> steps, stack |-> stack, lvalStack |-> lvalStack,
     diags |-> diags, disableTarget |-> disableTarget, calls |-> calls]

\* a session as constructed
FreshSession ==
    [steps |-> 0, stack |-> <<>>, lvalStack |-> <<>>, diags |-> <<>>,
     disableTarget |-> Null, calls |-> 0]

\* the session that the evaluation taking over works on: the one in use
\* when the two share a session, its own otherwise
takenOver(mode, inUse, own) == IF mode = "shared" THEN inUse ELSE own

NoResult == [failed |-> FALSE, read |-> <<>>]

InitShared ==
    /\ options \in [maxConstexprDepth : {1, MaxLimit},
                    maxConstexprSteps : {2, MaxStepCalls},
                    maxConstexprBacktrace : {0}]
    /\ InitSession
    /\ InitValues
    /\ pc = [e \in Evaluations |-> "start"]
    /\ drv \in [mode : {"shared", "own"}, cur : {"A"},
                parked : {FreshSession},
                result : {[e \in Evaluations |-> NoResult]}]

RestShared == UNCHANGED <<options, valVars, prev>>

At(position) == ~assertFailed /\ pc[drv.cur] = position

\* the other evaluation goes on
Switch ==
    LET s == takenOver(drv.mode, Session, drv.parked)
    IN /\ ~assertFailed
       /\ pc[Other(drv.cur)] # "done"
       /\ steps' = s.steps
       /\ stack' = s.stack
       /\ lvalStack' = s.lvalStack
       /\ diags' = s.diags
       /\ disableTarget' = s.disableTarget
       /\ calls' = s.calls
       /\ drv' = [drv EXCEPT !.cur = Other(@),
                             !.parked = IF drv.mode = "shared" THEN @
                                        ELSE Session]
       /\ UNCHANGED <<assertFailed, last, pc>>
       /\ RestShared

SharedPushFrame ==
    /\ At("start")
    /\ pushFrame("g", 1)
    /\ pc' = [pc EXCEPT ![drv.cur] = IF last'.ret THEN "bind" ELSE "done"]
    /\ drv' = [drv EXCEPT !.result[drv.cur].failed = ~last'.ret]
    /\ RestShared

SharedCreateLocal ==
    /\ At("bind")
    /\ createLocal("t", <<OwnValue(drv.cur)>>)
    /\ pc' = [pc EXCEPT ![drv.cur] = "step"]
    /\ drv' = drv
    /\ RestShared

SharedStep ==
    /\ At("step")
    /\ step(1)
    /\ pc' = [pc EXCEPT ![drv.cur] = IF last'.ret THEN "find" ELSE "pop"]
    /\ drv' = [drv EXCEPT !.result[drv.cur].failed = ~last'.ret]
    /\ RestShared

SharedFindLocal ==
    /\ At("find")
    /\ findLocal("t")
    /\ pc' = [pc EXCEPT ![drv.cur] = "pop"]
    /\ drv' = [drv EXCEPT !.result[drv.cur].read = last'.ret]
    /\ RestShared

SharedPopFrame ==
    /\ At("pop")
    /\ popFrame
    /\ pc' = [pc EXCEPT ![drv.cur] = "done"]
    /\ drv' = drv
    /\ RestShared

NextShared ==
    \/ Switch
    \/ SharedPushFrame
    \/ SharedCreateLocal
    \/ SharedStep
    \/ SharedFindLocal
    \/ SharedPopFrame

SpecShared == InitShared /\ [][NextShared]_vars

-----------------------------------------------------------------------------
(* SpecExpand: the expansion of a property or sequence instance.  drv      *)
(* holds the bodies of the constructs (which constructs each of them       *)
(* instantiates), the chain of instantiation records being expanded, the   *)
(* most recent last, each with the instantiations of its body that are     *)
(* still to be made, and the diagnostics of the scope.                     *)

Properties == {"p", "q"}
Sequences == {"s"}
Constructs == Properties \cup Sequences

\* a sequence instantiates sequences only
Bodies ==
    {b \in [Constructs -> SUBSET Constructs] :
        \A c \in Sequences : b[c] \subseteq Sequences}

\* AssertionInstanceDetails: symbol, isRecursive; prevContext is the record
\* before it in the chain
Record(symbol, isRecursive, todo) ==
    [symbol |-> symbol, isRecursive |-> isRecursive, todo |-> todo]

\* the scan of the history chain for the construct, record by record
\* through prevContext
inChainDirectly(chain, symbol) ==
    chain # <<>> /\ chain[Len(chain)].symbol = symbol
RECURSIVE inChain(_, _)
inChain(chain, symbol) ==
    IF chain = <<>> THEN FALSE
    ELSE IF chain[Len(chain)].symbol = symbol THEN TRUE
    ELSE inChain(SubSeq(chain, 1, Len(chain) - 1), symbol)

\* the instantiation taken off the body of the record that is expanded
taken(chain, symbol) ==
    IF chain = <<>> THEN chain
    ELSE [chain EXCEPT ![Len(chain)].todo = @ \ {symbol}]

\* the instantiation of a construct from the body of the last record of
\* the chain: a recursive sequence is rejected, a recursive property gets
\* a record marked recursive that is not expanded, any other construct
\* gets a record whose body is expanded next
instantiate(symbol) ==
    LET isRecursive == inChain(drv.chain, symbol)
        rejected == isRecursive /\ symbol \in Sequences
    IN /\ Len(drv.chain) < MaxNest
       /\ drv' = [drv EXCEPT
                     !.chain = IF isRecursive THEN taken(@, symbol)
                               ELSE Append(taken(@, symbol),
                                           Record(symbol, FALSE,
                                                  drv.body[symbol])),
                     !.diags = IF rejected
                               THEN Append(@, "RecursiveSequence")
                               ELSE @]
       /\ last' = Obs("instantiate", symbol,
                      [isRecursive |-> isRecursive, rejected |-> rejected])

InitExpand ==
    /\ options \in [maxConstexprDepth : {1},
                    maxConstexprSteps : {2},
                    maxConstexprBacktrace : {0}]
    /\ InitSession
    /\ InitValues
    /\ pc = "start"
    /\ drv \in [body : Bodies, chain : {<<>>}, diags : {<<>>}]

RestExpand == UNCHANGED <<options, ctxVars, valVars, prev>>

\* the instance that starts the expansion
ExpandTop ==
    \E symbol \in Constructs :
        /\ pc = "start"
        /\ instantiate(symbol)
        /\ pc' = "expanding"
        /\ RestExpand

\* an instance in the body that is being expanded
ExpandNested ==
    /\ pc = "expanding"
    /\ drv.chain # <<>>
    /\ \E symbol \in drv.chain[Len(drv.chain)].todo : instantiate(symbol)
    /\ pc' = pc
    /\ RestExpand

\* the body of the last record is expanded: back to the one before it
ExpandDone ==
    /\ pc = "expanding"
    /\ drv.chain # <<>>
    /\ drv.chain[Len(drv.chain)].todo = {}
    /\ drv' = [drv EXCEPT !.chain = SubSeq(@, 1, Len(@) - 1)]
    /\ pc' = IF Len(drv.chain) = 1 THEN "done" ELSE pc
    /\ last' = Obs("expanded", drv.chain[Len(drv.chain)].symbol, Null)
    /\ RestExpand

NextExpand ==
    \/ ExpandTop
    \/ ExpandNested
    \/ ExpandDone

\* the binding of an expression goes on until it is done
SpecExpand == InitExpand /\ [][NextExpand]_vars /\ WF_vars(NextExpand)

-----------------------------------------------------------------------------
(* SpecFrames: frames pushed and popped with locals bound and deleted in   *)
(* between; drv holds, for each frame on the stack, the stack as it was    *)
(* when the frame was pushed.                                              *)

InitFrames ==
    /\ options \in [maxConstexprDepth : {MaxLimit},
                    maxConstexprSteps : {2},
                    maxConstexprBacktrace : {0}]
    /\ InitSession
    /\ InitValues
    /\ pc = "idle"
    /\ drv = <<>>

RestFrames == UNCHANGED <<options, valVars, prev, pc>>

FramesPushFrame ==
    /\ Running
    /\ Len(diags) = 0
    /\ pushFrame("g", 1)
    /\ drv' = IF last'.ret THEN Append(drv, stack) ELSE drv
    /\ RestFrames

FramesPushEmptyFrame ==
    /\ Running
    /\ Len(stack) < MaxLimit
    /\ pushEmptyFrame
    /\ drv' = Append(drv, stack)
    /\ RestFrames

FramesCreateLocal ==
    \E symbol \in Symbols, value \in {<<>>, <<1>>} :
        /\ Running
        /\ stack # <<>>
        /\ createLocal(symbol, value)
        /\ drv' = drv
        /\ RestFrames

FramesDeleteLocal ==
    \E symbol \in Symbols :
        Running /\ deleteLocal(symbol) /\ drv' = drv /\ RestFrames

FramesFindLocal ==
    \E symbol \in Symbols :
        Running /\ findLocal(symbol) /\ drv' = drv /\ RestFrames

FramesPopFrame ==
    /\ Running
    /\ popFrame
    /\ drv' = SubSeq(drv, 1, Len(drv) - 1)
    /\ RestFrames

FramesReset == Running /\ reset /\ drv' = <<>> /\ RestFrames

NextFrames ==
    \/ FramesPushFrame
    \/ FramesPushEmptyFrame
    \/ FramesCreateLocal
    \/ FramesDeleteLocal
    \/ FramesFindLocal
    \/ FramesPopFrame
    \/ FramesReset

SpecFrames == InitFrames /\ [][NextFrames]_vars

-----------------------------------------------------------------------------
(* SpecQueue: the queue methods called one after the other on one queue,   *)
(* with a receiver and arguments that evaluate; drv is a plain sequence on *)
(* which every call is repeated, and what a pop of that sequence returns.  *)

\* the operations of the plain sequence, positions counted from 0; an
\* operation that cannot be done leaves the sequence as it is
RefPush(front, seq, v) ==
    [j \in 1..(Len(seq) + 1) |->
        IF front THEN (IF j = 1 THEN v ELSE seq[j - 1])
        ELSE (IF j = Len(seq) + 1 THEN v ELSE seq[j])]

RefPop(front, seq) ==
    IF seq = <<>> THEN seq
    ELSE [j \in 1..(Len(seq) - 1) |-> IF front THEN seq[j + 1] ELSE seq[j]]

RefPopped(front, seq) ==
    IF seq = <<>> THEN <<>>
    ELSE IF front THEN <<Head(seq)>> ELSE <<seq[Len(seq)]>>

RefInsert(seq, ci, v) ==
    IF ci.kind = "int" /\ 0 <= ci.v /\ ci.v <= Len(seq)
    THEN [j \in 1..(Len(seq) + 1) |->
             IF j <= ci.v THEN seq[j]
             ELSE IF j = ci.v + 1 THEN v ELSE seq[j - 1]]
    ELSE seq

RefDelete(seq, ci) ==
    IF ci.kind = "int" /\ 0 <= ci.v /\ ci.v < Len(seq)
    THEN [j \in 1..(Len(seq) - 1) |-> IF j <= ci.v THEN seq[j] ELSE seq[j + 1]]
    ELSE seq

InitQueue ==
    /\ options \in [maxConstexprDepth : {1},
                    maxConstexprSteps : {2},
                    maxConstexprBacktrace : {0}]
    /\ InitSession
    /\ InitValues
    /\ pc = "idle"
    /\ drv = [seq |-> <<>>, ret |-> <<>>]

RestQueue == UNCHANGED <<options, pc>>

QueueReset == Running /\ reset /\ UNCHANGED <<valVars, prev, drv>> /\ RestQueue

QueuePushCall ==
    \E front \in BOOLEAN, cv \in CVs :
        /\ Running
        /\ QueuePush(front, "ok", cv)
        /\ drv' = [seq |-> RefPush(front, drv.seq, cv[1]), ret |-> <<>>]
        /\ RestQueue

QueuePopCall ==
    \E front \in BOOLEAN :
        /\ Running
        /\ QueuePop(front, "ok")
        /\ drv' = [seq |-> RefPop(front, drv.seq),
                   ret |-> RefPopped(front, drv.seq)]
        /\ RestQueue

QueueInsertCall ==
    \E ci \in CIs, cv \in CVs :
        /\ Running
        /\ QueueInsert("ok", ci, cv)
        /\ drv' = [seq |-> RefInsert(drv.seq, ci[1], cv[1]), ret |-> <<>>]
        /\ RestQueue

QueueDeleteIndexCall ==
    \E ci \in CIs :
        /\ Running
        /\ QueueDelete("ok", <<ci>>)
        /\ drv' = [seq |-> RefDelete(drv.seq, ci[1]), ret |-> <<>>]
        /\ RestQueue

QueueDeleteAllCall ==
    /\ Running
    /\ QueueDelete("ok", <<>>)
    /\ drv' = [seq |-> <<>>, ret |-> <<>>]
    /\ RestQueue

NextQueue ==
    \/ QueueReset
    \/ QueuePushCall
    \/ QueuePopCall
    \/ QueueInsertCall
    \/ QueueDeleteIndexCall
    \/ QueueDeleteAllCall

SpecQueue == InitQueue /\ [][NextQueue]_vars

-----------------------------------------------------------------------------
(* SpecAddDiags: lists of diagnostics, made elsewhere, added to the        *)
(* session inside and outside calls.                                       *)

\* the diagnostics of the lists: one without notes and one that has a note
Additional ==
    {[code |-> "ConstEvalNonConstVariable", location |-> 1, notes |-> <<>>],
     [code |-> "ConstEvalEmptyQueue", location |-> 1,
      notes |-> <<[code |-> "NoteDeclarationHere"]>>]}

AdditionalLists == UNION {[1..n -> Additional] : n \in 0..2}

InitAddDiags ==
    /\ options \in [maxConstexprDepth : {MaxLimit},
                    maxConstexprSteps : {2},
                    maxConstexprBacktrace : {0}]
    /\ InitSession
    /\ InitValues
    /\ pc = "idle"
    /\ drv = Null

AddDiagsReset == Running /\ reset /\ Rest

AddDiagsPushFrame ==
    /\ Running
    /\ Len(stack) < MaxLimit
    /\ pushFrame("g", 1)
    /\ Rest

AddDiagsPopFrame == Running /\ popFrame /\ Rest

AddDiagsCall ==
    \E additional \in AdditionalLists :
        /\ Running
        /\ Len(diags) + Len(additional) <= MaxDiags + 2
        /\ addDiags(additional)
        /\ Rest

NextAddDiags ==
    \/ AddDiagsReset
    \/ AddDiagsPushFrame
    \/ AddDiagsPopFrame
    \/ AddDiagsCall

SpecAddDiags == InitAddDiags /\ [][NextAddDiags]_vars

-----------------------------------------------------------------------------
(* SpecSort: sort and rsort called, one after the other, on a fixed-size   *)
(* array, a dynamic array or a queue.                                      *)

\* the `with` clauses of the sorts: none, a key that tells all elements
\* apart and one that does not
SortExprs == {e \in IterExprs : e.fn \in {"plus1", "lowbit"}}
SortClauses == {<<>>} \cup {<<e>> : e \in SortExprs}

\* the evaluated program sorts with one `with` clause, held by drv
InitSort ==
    /\ options \in [maxConstexprDepth : {1},
                    maxConstexprSteps : {2},
                    maxConstexprBacktrace : {0}]
    /\ InitSession
    /\ pc = "idle"
    /\ drv \in [iterExpr : SortClauses]
    /\ InitReceiver({"FixedSizeUnpackedArrayType", "DynamicArrayType",
                     "QueueType"})

\* of the call before the last one, this specification keeps the name and
\* the arguments
SortCall ==
    \E reversed \in BOOLEAN, lval \in LVals :
        /\ Running
        /\ ArraySort(reversed, lval, drv.iterExpr)
        /\ prev' = IF "arg" \in DOMAIN last
                   THEN [op |-> last.op, arg |-> last.arg]
                   ELSE [op |-> last.op]
        /\ RestMethods

NextSort ==
    \/ TopFrame
    \/ SortCall

SpecSort == InitSort /\ [][NextSort]_vars
-----------------------------------------------------------------------------
(* Claims about the session *)

LastDiag(ds) == ds[Len(ds)]
OneDiagAdded(code) ==
    /\ Len(diags') = Len(diags) + 1
    /\ SubSeq(diags', 1, Len(diags)) = diags
    /\ LastDiag(diags').code = code

\* C1: pushFrame on a stack of at least maxConstexprDepth frames returns
\* failure, adds exactly one max-call-depth diagnostic and leaves the stack
\* as it was; on a shorter stack it returns success, pushes exactly one frame
\* without locals and adds no diagnostic.
PushFrameContract ==
    [][last'.op = "pushFrame" =>
          IF Len(stack) >= options.maxConstexprDepth
          THEN /\ last'.ret = FALSE
               /\ OneDiagAdded("ConstEvalExceededMaxCallDepth")
               /\ stack' = stack
          ELSE /\ last'.ret = TRUE
               /\ Len(stack') = Len(stack) + 1
               /\ SubSeq(stack', 1, Len(stack)) = stack
               /\ stack'[Len(stack')].subroutine = last'.arg
               /\ stack'[Len(stack')].temporaries = << >>
               /\ diags' = diags]_vars

\* a refused pushFrame on a stack deeper than the maximum, after one that
\* was accepted
PushFrameRefused ==
    /\ last.op = "pushFrame"
    /\ last.ret = FALSE
    /\ Len(stack) > options.maxConstexprDepth
    /\ options.maxConstexprDepth > 0
    /\ Len(diags) = 1

\* C3: every step call adds exactly 1 to the counter, so that the counter
\* is the number of calls since the last reset; the call returns success
\* without a diagnostic while the counter is below maxConstexprSteps, and
\* from then on every call adds one max-steps diagnostic and returns failure.
StepContract ==
    /\ [](calls = steps)
    /\ [][last'.op = "step" =>
             /\ steps' = steps + 1
             /\ IF steps' < options.maxConstexprSteps
                THEN last'.ret = TRUE /\ diags' = diags
                ELSE /\ last'.ret = FALSE
                     /\ OneDiagAdded("ConstEvalExceededMaxSteps")]_vars

\* a step call that fails after the call that first reached the maximum
StepRefusedAgain ==
    /\ last.op = "step"
    /\ last.ret = FALSE
    /\ options.maxConstexprSteps >= 2
    /\ steps > options.maxConstexprSteps
    /\ Len(diags) = 2

HasDiag(code) == \E i \in 1..Len(diags) : diags[i].code = code
NumDiags(code) == Cardinality({i \in 1..Len(diags) : diags[i].code = code})

\* the nested calls that find room under the depth limit when the stack
\* already holds base frames
Room == Max(options.maxConstexprDepth - drv.base, 0)

\* C2 (as stated): under a maximum depth M below the needed depth D, the
\* first M nested calls push their frame and the evaluation fails exactly at
\* the (M+1)-th; a max-depth diagnostic is reported and the stack is back at
\* its depth of before the first call once the failure has reached the top.
RecursionFailsAtCallMPlus1 ==
    (pc = "done" /\ options.maxConstexprDepth < drv.need) =>
        /\ drv.pushes = options.maxConstexprDepth
        /\ drv.failedAt = options.maxConstexprDepth + 1
        /\ HasDiag("ConstEvalExceededMaxCallDepth")
        /\ Len(stack) = drv.base
        /\ drv.pops = drv.pushes

\* C2 (amended): with B frames on the stack before the first call, the
\* first max(M - B, 0) nested calls push their frame and the evaluation
\* fails exactly at the next one; one max-depth diagnostic is reported, every
\* push has been matched by one pop and the stack is back at depth B.
RecursionFailsWhenStackFull ==
    (pc = "done" /\ options.maxConstexprDepth < drv.need) =>
        /\ drv.pushes = Room
        /\ drv.failedAt = Room + 1
        /\ NumDiags("ConstEvalExceededMaxCallDepth") = 1
        /\ Len(diags) = 1
        /\ Len(stack) = drv.base
        /\ \A i \in 1..Len(stack) : stack[i] = EmptyFrame
        /\ drv.pops = drv.pushes

\* a recursion that failed at the M-th call because the top level had
\* pushed an empty frame
RecursionFailedUnderEmptyFrame ==
    /\ pc = "done"
    /\ options.maxConstexprDepth < drv.need
    /\ options.maxConstexprDepth >= 2
    /\ drv.base = 1
    /\ drv.failedAt = options.maxConstexprDepth
    /\ drv.pops >= 1

\* C4: a loop that calls step once per iteration and stops when step fails
\* terminates, whether or not its own exit condition ever holds; when its
\* iterations would take the counter beyond maxConstexprSteps it is aborted
\* with a max-steps diagnostic after at most maxConstexprSteps step calls,
\* and when they keep the counter below the maximum it completes without one.
LoopWouldExceed ==
    ~drv.exits \/ drv.before + drv.need > options.maxConstexprSteps
LoopStaysBelow ==
    drv.exits /\ drv.before + drv.need < options.maxConstexprSteps

LoopTerminates ==
    /\ <>(pc \in {"done", "aborted"})
    /\ [](pc \in {"done", "aborted"} =>
            /\ LoopWouldExceed =>
                   /\ pc = "aborted"
                   /\ Len(diags) = 1
                   /\ diags[1].code = "ConstEvalExceededMaxSteps"
                   /\ calls <= options.maxConstexprSteps
            /\ LoopStaysBelow => (pc = "done" /\ diags = <<>>))

\* a loop without exit that was aborted after some iterations
EndlessLoopAborted ==
    /\ pc = "aborted"
    /\ ~drv.exits
    /\ drv.iter >= 1
    /\ drv.before >= 1
    /\ HasDiag("ConstEvalExceededMaxSteps")

-----------------------------------------------------------------------------
(* Claims about the queue methods *)

Evaluated(call) == call.arg.lval = "ok"

\* C5: a pop_back that follows a push_back(x) returns x and leaves the
\* queue with the size and the contents it had before the push.
PushBackThenPopBack ==
    (/\ last.op = "pop_back" /\ Evaluated(last)
     /\ prev.op = "push_back" /\ Evaluated(prev) /\ prev.arg.cv # <<>>) =>
        /\ last.ret = prev.arg.cv[1]
        /\ Len(q) = Len(prev.pre)
        /\ q = prev.pre

\* push_back then pop_back on a non-empty queue that was at its bound
PushBackPopBackAtBound ==
    /\ last.op = "pop_back" /\ Evaluated(last)
    /\ prev.op = "push_back" /\ Evaluated(prev) /\ prev.arg.cv # <<>>
    /\ last.ret = prev.arg.cv[1]
    /\ maxBound = 2
    /\ Len(prev.pre) = maxBound
    /\ prev.pre[Len(prev.pre)] # last.ret

\* C6: insert(index, value) on a queue of size n with 0 <= index <= n puts
\* value at position index, keeps the elements before it and moves those
\* from index on one place back, without a diagnostic; with an index that
\* is negative, above n or not a 32-bit signed integer it adds exactly one
\* diagnostic and leaves the queue as it was.
InsertContract ==
    [][(/\ last'.op = "insert" /\ Evaluated(last')
        /\ last'.arg.ci # <<>> /\ last'.arg.cv # <<>>) =>
          LET ci == last'.arg.ci[1]
              n == Len(q)
          IN IF ci.kind = "int" /\ 0 <= ci.v /\ ci.v <= n
             THEN /\ Len(q') = n + 1
                  /\ q'[ci.v + 1] = last'.arg.cv[1]
                  /\ \A k \in 1..ci.v : q'[k] = q[k]
                  /\ \A k \in (ci.v + 1)..n : q'[k + 1] = q[k]
                  /\ diags' = diags
             ELSE /\ OneDiagAdded("ConstEvalDynamicArrayIndex")
                  /\ q' = q]_vars

\* an insert in the middle followed by an insert just beyond the end, which
\* is refused
InsertRefusedBeyondEnd ==
    /\ last.op = "insert" /\ Evaluated(last)
    /\ prev.op = "insert" /\ Evaluated(prev)
    /\ prev.arg.ci = <<Integer(1)>>
    /\ Len(prev.pre) = 2
    /\ last.arg.ci = <<Integer(Len(q) + 1)>>
    /\ last.arg.cv # <<>>
    /\ q = last.pre
    /\ q = <<prev.pre[1], prev.arg.cv[1], prev.pre[2]>>
    /\ Len(diags) = 1

\* C7: delete(index) on a queue of size n with 0 <= index < n removes the
\* element at that position and keeps the others in their order, without a
\* diagnostic; with any other index it adds exactly one diagnostic and
\* leaves the queue as it was.
DeleteContract ==
    [][(/\ last'.op = "delete" /\ kind = "QueueType" /\ Evaluated(last')
        /\ Len(last'.arg.args) = 1 /\ last'.arg.args[1] # <<>>) =>
          LET ci == last'.arg.args[1][1]
              n == Len(q)
          IN IF ci.kind = "int" /\ 0 <= ci.v /\ ci.v < n
             THEN /\ Len(q') = n - 1
                  /\ \A k \in 1..ci.v : q'[k] = q[k]
                  /\ \A k \in (ci.v + 2)..n : q'[k - 1] = q[k]
                  /\ diags' = diags
             ELSE /\ OneDiagAdded("ConstEvalDynamicArrayIndex")
                  /\ q' = q]_vars

\* delete(n) refused on a queue of n >= 1 elements
DeleteRefusedAtSize ==
    /\ kind = "QueueType"
    /\ last.op = "delete" /\ Evaluated(last)
    /\ Len(q) >= 1
    /\ last.arg.args = <<<<Integer(Len(q))>>>>
    /\ q = last.pre
    /\ Len(diags) = 1

\* C8: a pop on an empty queue adds exactly one empty-queue diagnostic,
\* returns the element type's default, leaves the queue empty and raises
\* nothing; on a non-empty queue pop_front removes and returns the first
\* element and pop_back the last one, without a diagnostic.
PopContract ==
    [][(last'.op \in {"pop_front", "pop_back"} /\ Evaluated(last')) =>
          IF q = <<>>
          THEN /\ OneDiagAdded("ConstEvalEmptyQueue")
               /\ last'.ret = DefaultValue
               /\ q' = <<>>
               /\ ~assertFailed'
          ELSE /\ diags' = diags
               /\ IF last'.op = "pop_front"
                  THEN last'.ret = q[1] /\ q' = Tail(q)
                  ELSE /\ last'.ret = q[Len(q)]
                       /\ q' = SubSeq(q, 1, Len(q) - 1)]_vars

\* pop_front on a queue that the previous pop_front had emptied
PopFrontOnEmptiedQueue ==
    /\ last.op = "pop_front" /\ Evaluated(last)
    /\ last.pre = <<>>
    /\ last.ret = DefaultValue
    /\ prev.op = "pop_front" /\ Evaluated(prev)
    /\ Len(prev.pre) = 1
    /\ q = <<>>
    /\ Len(diags) = 1

\* C9: a queue with a maximum size never holds more elements than that.
QueueWithinBound == withinBound(q, maxBound)

\* C10: size() called right after delete() without argument returns 0,
\* whatever the kind of the container and whatever it held.
DeleteThenSize ==
    (/\ last.op = "size" /\ Evaluated(last)
     /\ prev.op = "delete" /\ Evaluated(prev) /\ prev.arg.args = <<>>) =>
        last.ret = SVInt(32, 0, TRUE)

\* delete() then size() on a queue that held elements
QueueDeletedThenSized ==
    /\ kind = "QueueType"
    /\ last.op = "size" /\ Evaluated(last)
    /\ prev.op = "delete" /\ Evaluated(prev) /\ prev.arg.args = <<>>
    /\ Len(prev.pre) >= 2
    /\ last.ret.value = 0

\* C18: size, and num on an associative array, returns the number of
\* elements the container holds at the call, as a 32-bit signed integer,
\* whatever calls came before, and leaves the container as it was.
SizeContract ==
    [][(last'.op \in {"size", "num"} /\ Evaluated(last')) =>
          /\ last'.ret.width = 32 /\ last'.ret.signed
          /\ last'.ret.value = CASE kind = "QueueType" -> Len(q)
                                  [] kind = "DynamicArrayType" -> Len(dyn)
                                  [] kind = "AssociativeArrayType" ->
                                         Cardinality(DOMAIN map)
          /\ UNCHANGED <<kind, q, dyn, map>>]_vars

\* num on an associative array to which a second key has just been assigned
NumAfterSecondKey ==
    /\ kind = "AssociativeArrayType"
    /\ last.op = "num" /\ Evaluated(last)
    /\ prev.op = "assign"
    /\ Cardinality(DOMAIN prev.pre) = 1
    /\ Cardinality(DOMAIN map) = 2
    /\ last.ret = SVInt(32, 2, TRUE)

\* C11: exists(k) on an associative array returns the 32-bit signed 1 when
\* k is a key of the array and the 32-bit signed 0 when it is not, and leaves
\* the array as it was; right after an assignment to key k it returns 1 and
\* right after delete(k) it returns 0.
SameKey(a, b) == a.arg.args = b.arg.args
ExistsContract ==
    /\ []((last.op = "exists" /\ Evaluated(last) /\ last.arg.args # <<<<>>>>) =>
            /\ (prev.op = "assign" /\ SameKey(prev, last)) =>
                    last.ret = SVInt(32, 1, TRUE)
            /\ (prev.op = "delete" /\ Evaluated(prev) /\ SameKey(prev, last)) =>
                    last.ret = SVInt(32, 0, TRUE))
    /\ [][(last'.op = "exists" /\ Evaluated(last')
              /\ last'.arg.args # <<<<>>>>) =>
             /\ last'.ret = SVInt(32, IF last'.arg.args[1][1] \in DOMAIN map
                                      THEN 1 ELSE 0, TRUE)
             /\ map' = map]_vars

\* exists(k) right after delete(k) took k out of an array that held it, k
\* having been assigned before
ExistsAfterDeleteOfKey ==
    /\ last.op = "exists" /\ Evaluated(last)
    /\ prev.op = "delete" /\ Evaluated(prev) /\ SameKey(prev, last)
    /\ prev.arg.args # <<>>
    /\ prev.arg.args[1][1] \in DOMAIN prev.pre
    /\ last.ret = SVInt(32, 0, TRUE)
    /\ map # << >>

-----------------------------------------------------------------------------
(* Claims about the reductions *)

IsReduction(call) == call.op \in ReductionNames /\ Evaluated(call)

\* the type of a reduction's result: of the `with` expression when there is
\* one, of the elements otherwise
ResultType(call) ==
    IF call.arg.iterExpr # <<>> THEN call.arg.iterExpr[1] ELSE elemType

\* C12: or, xor and sum over an empty container return 0 at the width and
\* signedness of the element type, or of the `with` expression's type when a
\* `with` expression is given.
EmptyOrXorSumIsZero ==
    (/\ last.op \in {"or", "xor", "sum"} /\ Evaluated(last)
     /\ elements(last.pre) = <<>>) =>
        /\ last.ret.value = 0
        /\ last.ret.width = ResultType(last).width
        /\ last.ret.signed = ResultType(last).signed

\* sum over an empty container of 2-bit signed elements, with an expression
\* of three unsigned bits
EmptySumWithExpression ==
    /\ last.op = "sum" /\ Evaluated(last)
    /\ elements(last.pre) = <<>>
    /\ elemType = [width |-> 2, signed |-> TRUE]
    /\ last.arg.iterExpr = <<[fn |-> "plus1", width |-> 3, signed |-> FALSE]>>
    /\ last.ret = SVInt(3, 0, FALSE)

\* C13: `and` over an empty container returns the all-ones value at the
\* element's declared width and signedness.
EmptyAndIsAllOnes ==
    (IsReduction(last) /\ last.op = "and" /\ elements(last.pre) = <<>>) =>
        last.ret = SVInt(ResultType(last).width,
                         Pow2(ResultType(last).width) - 1,
                         ResultType(last).signed)

\* C14: product over an empty container returns 1 at the element's declared
\* width and signedness.
EmptyProductIsOne ==
    (IsReduction(last) /\ last.op = "product" /\ elements(last.pre) = <<>>) =>
        last.ret = SVInt(ResultType(last).width, 1, ResultType(last).signed)

RECURSIVE SumOf(_)
SumOf(v) == IF v = <<>> THEN 0 ELSE Head(v) + SumOf(Tail(v))
RECURSIVE ProductOf(_)
ProductOf(v) == IF v = <<>> THEN 1 ELSE Head(v) * ProductOf(Tail(v))
BitOf(x, b) == (x \div Pow2(b)) % 2

\* value is what the reduction `name` of the values v gives in width bits
IsReductionOf(name, value, v, width) ==
    /\ value \in 0..(Pow2(width) - 1)
    /\ CASE name = "sum" -> value = SumOf(v) % Pow2(width)
         [] name = "product" -> value = ProductOf(v) % Pow2(width)
         [] name = "or" ->
                \A b \in 0..(width - 1) :
                    BitOf(value, b) = 1 <=>
                        \E i \in 1..Len(v) : BitOf(v[i], b) = 1
         [] name = "and" ->
                \A b \in 0..(width - 1) :
                    BitOf(value, b) = 1 <=>
                        \A i \in 1..Len(v) : BitOf(v[i], b) = 1
         [] name = "xor" ->
                \A b \in 0..(width - 1) :
                    BitOf(value, b) =
                        Cardinality({i \in 1..Len(v) : BitOf(v[i], b) = 1}) % 2

\* C15: over a non-empty container a reduction returns the fold of its
\* operator over the elements in container order, or over the values of the
\* `with` expression with the iterator variable bound to each element in
\* turn; the result has the width of the element or expression type, sum and
\* product wrapping modulo 2^width, and a single element gives that element
\* or its expression value.  No value is returned when an evaluation of the
\* expression fails.
ReductionIsFold ==
    (IsReduction(last) /\ elements(last.pre) # <<>> /\ ~assertFailed) =>
        LET arr == elements(last.pre)
            e == last.arg.iterExpr
            cvs == [i \in 1..Len(arr) |->
                       IF e # <<>> THEN evalIter(e[1], arr[i])
                       ELSE <<integer(arr[i])>>]
            v == [i \in 1..Len(arr) |-> cvs[i][1].value]
        IN IF \E i \in 1..Len(arr) : cvs[i] = <<>>
           THEN last.ret = Null
           ELSE /\ last.ret.width = ResultType(last).width
                /\ last.ret.signed = ResultType(last).signed
                /\ IsReductionOf(last.op, last.ret.value, v, last.ret.width)
                /\ Len(arr) = 1 => last.ret = cvs[1][1]
                /\ e # <<>> =>
                       stack[Len(stack)].temporaries[IterVar] = arr[Len(arr)]

\* the product of item + 1 over the queue {2, 2} of 2-bit elements: 9 in
\* three bits is 1
ProductWithExpressionWraps ==
    /\ kind = "QueueType"
    /\ last.op = "product" /\ Evaluated(last)
    /\ last.pre = <<2, 2>>
    /\ last.arg.iterExpr = <<[fn |-> "plus1", width |-> 3, signed |-> FALSE]>>
    /\ last.ret = SVInt(3, 1, FALSE)
    /\ stack[Len(stack)].temporaries[IterVar] = 2

-----------------------------------------------------------------------------
(* Claims about the sorts *)

IsSort(call) == call.op \in {"sort", "rsort"} /\ Evaluated(call)

\* the number by which a sort orders an element
SortKey(call, item) ==
    IF call.arg.iterExpr = <<>> THEN numeric(integer(item))
    ELSE numeric(evalIter(call.arg.iterExpr[1], item)[1])

Occurrences(s, x) == Cardinality({i \in 1..Len(s) : s[i] = x})
IsPermutation(r, s) ==
    /\ Len(r) = Len(s)
    /\ \A x \in Range(r) \cup Range(s) : Occurrences(r, x) = Occurrences(s, x)

\* C16: sort leaves in the receiver - a fixed-size array, a dynamic array or
\* a queue - a permutation of its previous elements in ascending order of the
\* element, or of its key when a `with` expression is given, and rsort one in
\* descending order; both change the receiver in place and return no value.
SortContract ==
    [][(IsSort(last') /\ ~assertFailed') =>
          /\ IsPermutation(Receiver', Receiver)
          /\ \A i, j \in 1..Len(Receiver') :
                 i < j =>
                     IF last'.op = "sort"
                     THEN SortKey(last', Receiver'[i]) <= SortKey(last', Receiver'[j])
                     ELSE SortKey(last', Receiver'[i]) >= SortKey(last', Receiver'[j])
          /\ last'.ret = Null
          /\ last'.pre = Receiver
          /\ kind' = kind /\ map' = map]_vars

\* rsort by the low bit has rearranged the fixed-size array {0, 1, 2}
RsortedByKey ==
    /\ kind = "FixedSizeUnpackedArrayType"
    /\ last.op = "rsort" /\ Evaluated(last)
    /\ last.arg.iterExpr = <<[fn |-> "lowbit", width |-> 1, signed |-> FALSE]>>
    /\ last.pre = <<0, 1, 2>>
    /\ dyn = <<1, 2, 0>>
    /\ last.ret = Null

SortThenRsort ==
    /\ kind = "QueueType"
    /\ last.op = "rsort" /\ Evaluated(last)
    /\ prev.op = "sort" /\ Evaluated(prev)
    /\ ~assertFailed

\* C17: the queue that rsort() produces is the exact reverse of the one that
\* sort() produced from the same contents, also when elements repeat and when
\* a key expression is used.
SortRsortExactReverses == SortThenRsort => q = Reverse(last.pre)

\* the keys of the queue that rsort() produces are those of the queue that
\* sort() produced in reverse order, and the queues themselves are exact
\* reverses when no two different elements have the same key, as is the case
\* without a key expression.
SortRsortReverseKeys ==
    SortThenRsort =>
        /\ Len(q) = Len(last.pre)
        /\ \A i \in 1..Len(q) :
               SortKey(last, q[i]) = SortKey(last, last.pre[Len(q) + 1 - i])
        /\ (\A a, b \in Range(q) : SortKey(last, a) = SortKey(last, b) => a = b)
               => q = Reverse(last.pre)

\* sort then rsort by the low bit: 1 and 3 have the same key and keep their
\* order
EqualKeysNotReversed ==
    /\ SortThenRsort
    /\ last.arg.iterExpr = <<[fn |-> "lowbit", width |-> 1, signed |-> FALSE]>>
    /\ last.pre = <<0, 1, 3>>
    /\ q = <<1, 3, 0>>

-----------------------------------------------------------------------------
(* Claims about backtraces *)

\* the note is the one of a call: its subroutine, its call site and the
\* values its arguments have in the frame
Describes(note, frame) ==
    /\ note.code = "NoteInCallTo"
    /\ note.subroutine = frame.subroutine
    /\ note.location = frame.callLocation
    /\ note.args = [i \in 1..Len(getArguments(frame.subroutine)) |->
                       frame.temporaries[getArguments(frame.subroutine)[i]]]

IsCall(frame) == frame.subroutine # NoSubroutine
IsCallNote(note) == note.code = "NoteInCallTo"
IsSkipNote(note) == note.code = "NoteSkippingFrames"

\* the frames of st that a backtrace cut to limit shows, most recent first:
\* the floor(limit/2) most recent and then the ceil(limit/2) oldest
Shown(st, limit) ==
    [i \in 1..limit |->
        IF i <= limit \div 2 THEN st[Len(st) + 1 - i] ELSE st[limit + 1 - i]]

\* a diagnostic is added while more frames are active than the limit L > 0
AddedBeyondLimit ==
    /\ last'.op = "addDiag"
    /\ options.maxConstexprBacktrace > 0
    /\ Len(stack) > options.maxConstexprBacktrace

\* C19: a diagnostic added at depth D > L > 0 has L frame notes, those of the
\* first floor(L/2) and of the last ceil(L/2) frames of the stack, most
\* recent call first, and between them exactly one elision note citing D - L
\* skipped frames.
BacktraceShowsLimitFrames ==
    [][AddedBeyondLimit =>
          LET L == options.maxConstexprBacktrace
              notes == LastDiag(diags').notes
              shown == Shown(stack, L)
          IN /\ Len(notes) = L + 1
             /\ \A i \in 1..(L \div 2) : Describes(notes[i], shown[i])
             /\ IsSkipNote(notes[(L \div 2) + 1])
             /\ notes[(L \div 2) + 1].count = Len(stack) - L
             /\ \A i \in ((L \div 2) + 1)..L : Describes(notes[i + 1], shown[i])]_vars

\* a diagnostic added at depth D > L > 0 has one note for each call among
\* the first floor(L/2) and the last ceil(L/2) frames of the stack, most
\* recent call first - a frame pushed without a subroutine has none - and
\* exactly one elision note citing D - L skipped frames, after the notes of
\* the first floor(L/2) frames.
BacktraceShowsCallsWithinLimit ==
    [][AddedBeyondLimit =>
          LET L == options.maxConstexprBacktrace
              notes == LastDiag(diags').notes
              shown == Shown(stack, L)
              recent == SelectSeq(SubSeq(shown, 1, L \div 2), IsCall)
              oldest == SelectSeq(SubSeq(shown, (L \div 2) + 1, L), IsCall)
          IN /\ Len(notes) = Len(recent) + 1 + Len(oldest)
             /\ \A i \in 1..Len(recent) : Describes(notes[i], recent[i])
             /\ IsSkipNote(notes[Len(recent) + 1])
             /\ notes[Len(recent) + 1].count = Len(stack) - L
             /\ \A i \in 1..Len(oldest) :
                    Describes(notes[Len(recent) + 1 + i], oldest[i])
             /\ Len(SelectSeq(notes, IsSkipNote)) = 1
             /\ (\A i \in 1..L : IsCall(shown[i])) =>
                    Len(SelectSeq(notes, IsCallNote)) = L]_vars

\* a diagnostic added under the limit 2 with three frames active, the oldest
\* of them pushed without a subroutine: one call note and the elision note
ElidedBacktraceWithEmptyFrame ==
    /\ last.op = "addDiag"
    /\ options.maxConstexprBacktrace = 2
    /\ Len(stack) = 3
    /\ ~IsCall(stack[1]) /\ IsCall(stack[2]) /\ IsCall(stack[3])
    /\ Len(LastDiag(diags).notes) = 2
    /\ Describes(LastDiag(diags).notes[1], stack[3])
    /\ LastDiag(diags).notes[2].count = 1

\* C20: the backtrace of a diagnostic is the one of the frames active when
\* addDiag is called - without elision, one note for each call, most recent
\* first, with the argument values of that moment - and no later pushFrame,
\* pushEmptyFrame, popFrame, createLocal or deleteLocal changes it, the
\* popping of every frame included.
BacktraceFixedAtAddDiag ==
    [][/\ last'.op # "reset" =>
              /\ Len(diags') >= Len(diags)
              /\ SubSeq(diags', 1, Len(diags)) = diags
       /\ last'.op \in {"popFrame", "pushEmptyFrame", "createLocal",
                        "deleteLocal"} => diags' = diags
       /\ (last'.op = "pushFrame" /\ last'.ret) => diags' = diags
       /\ (/\ last'.op = "addDiag"
           /\ \/ options.maxConstexprBacktrace = 0
              \/ Len(stack) <= options.maxConstexprBacktrace) =>
              LET notes == LastDiag(diags').notes
                  called == SelectSeq(Reverse(stack), IsCall)
              IN /\ Len(notes) = Len(called)
                 /\ \A i \in 1..Len(notes) : Describes(notes[i], called[i])]_vars

\* every frame has been popped since the diagnostic was added: its backtrace
\* still shows the two calls, f with the argument it then had
BacktraceOutlivesFrames ==
    /\ last.op = "popFrame"
    /\ stack = <<>>
    /\ options.maxConstexprBacktrace = 0
    /\ Len(diags) = 1
    /\ Len(diags[1].notes) = 2
    /\ diags[1].notes[1].subroutine = "f"
    /\ diags[1].notes[1].args = <<1>>
    /\ diags[1].notes[2].subroutine = "g"

-----------------------------------------------------------------------------
(* Claims about locals *)

Top(st) == st[Len(st)]
Below(st) == SubSeq(st, 1, Len(st) - 1)

\* the frame stack after the step differs from the one before at most in
\* what the top frame binds symbol to
OnlyTopBindingChanged(symbol) ==
    /\ Len(stack') = Len(stack)
    /\ Below(stack') = Below(stack)
    /\ Top(stack').subroutine = Top(stack).subroutine
    /\ Top(stack').callLocation = Top(stack).callLocation
    /\ DOMAIN Top(stack').temporaries \ {symbol}
           = DOMAIN Top(stack).temporaries \ {symbol}
    /\ \A s \in DOMAIN Top(stack).temporaries \ {symbol} :
           Top(stack').temporaries[s] = Top(stack).temporaries[s]

\* C21: createLocal(symbol, value) binds symbol in the top frame, over any
\* binding it has there, to value or, when none is given, to the default
\* value of the symbol's type; no other binding and no other frame changes,
\* and a findLocal(symbol) that comes next returns that value.
CreateLocalContract ==
    /\ [][(last'.op = "createLocal" /\ stack # <<>>) =>
             LET symbol == last'.arg.symbol
                 bound == IF last'.arg.value = <<>> THEN DefaultValue
                          ELSE last'.arg.value[1]
             IN /\ last'.ret = bound
                /\ symbol \in DOMAIN Top(stack').temporaries
                /\ Top(stack').temporaries[symbol] = bound
                /\ OnlyTopBindingChanged(symbol)
                /\ ~assertFailed']_vars
    /\ [][(last'.op = "findLocal" /\ last.op = "createLocal" /\ stack # <<>>
              /\ last'.arg = last.arg.symbol) =>
             last'.ret = <<last.ret>>]_vars

\* t, bound to the default value, has been bound again with the value 1 and
\* then looked up, in a frame above one that binds t too
FoundAfterRebinding ==
    /\ last.op = "findLocal" /\ last.arg = "t" /\ last.ret = <<1>>
    /\ prev.op = "createLocal" /\ prev.arg = [symbol |-> "t", value |-> <<1>>]
    /\ Len(stack) = 2
    /\ "t" \in DOMAIN stack[1].temporaries
    /\ stack[1].temporaries["t"] = DefaultValue
    /\ "a" \in DOMAIN stack[2].temporaries

\* C22: createLocal called on an empty frame stack fails its assertion and
\* binds nothing; the frame stack is empty after construction, after reset()
\* and after the pop of the last frame, and stays so until pushEmptyFrame or
\* a pushFrame that succeeds.
CreateLocalNeedsFrame ==
    /\ [](last.op \in {"none", "reset"} => stack = <<>>)
    /\ [][/\ (last'.op = "createLocal" /\ stack = <<>>) =>
                 assertFailed' /\ stack' = <<>>
          /\ (last'.op = "createLocal" /\ stack # <<>>) => ~assertFailed'
          /\ (last'.op = "popFrame" /\ Len(stack) = 1) => stack' = <<>>
          /\ (stack = <<>> /\ stack' # <<>>) =>
                 \/ last'.op = "pushEmptyFrame"
                 \/ last'.op = "pushFrame" /\ last'.ret]_vars

\* createLocal right after the only frame was popped
CreateLocalAfterLastPop ==
    /\ assertFailed
    /\ last.op = "createLocal"
    /\ prev.op = "popFrame"
    /\ stack = <<>>

\* C23: findLocal returns the binding of the symbol in the top frame, and
\* not-found when the top frame has none, whatever lower frames hold;
\* deleteLocal removes the symbol's binding from the top frame and changes
\* no other binding and no lower frame; on an empty frame stack findLocal
\* returns not-found and deleteLocal changes nothing.
TopFrameOnly ==
    [][/\ last'.op = "findLocal" =>
              /\ stack' = stack
              /\ last'.ret =
                     IF stack # <<>> /\ last'.arg \in DOMAIN Top(stack).temporaries
                     THEN <<Top(stack).temporaries[last'.arg]>>
                     ELSE <<>>
       /\ last'.op = "deleteLocal" =>
              IF stack = <<>> THEN stack' = <<>>
              ELSE /\ last'.arg \notin DOMAIN Top(stack').temporaries
                   /\ OnlyTopBindingChanged(last'.arg)
       /\ last'.op \in {"findLocal", "deleteLocal"} =>
              UNCHANGED <<steps, lvalStack, diags, disableTarget, assertFailed>>
      ]_vars

\* t is looked up while only the frame below the top one binds it
NotFoundInLowerFrame ==
    /\ last.op = "findLocal" /\ last.arg = "t" /\ last.ret = <<>>
    /\ Len(stack) = 2
    /\ "t" \in DOMAIN stack[1].temporaries
    /\ "t" \notin DOMAIN stack[2].temporaries

-----------------------------------------------------------------------------
(* Claims about the session as a whole *)

\* the session's own fields are those of a constructed session
AsConstructed ==
    /\ steps = 0
    /\ stack = <<>>
    /\ lvalStack = <<>>
    /\ diags = <<>>
    /\ disableTarget = Null

\* C24: reset() sets the step counter to 0, empties the frame stack, the
\* reference-target stack and the pending diagnostics and clears the disable
\* target and its range, so that the session is as a constructed one: the
\* step() and the pushFrame() that come next have the whole step budget and
\* the whole call depth.
ResetContract ==
    /\ [](last.op = "reset" => AsConstructed)
    /\ []((prev.op = "reset" /\ last.op = "step") =>
              /\ steps = 1
              /\ last.ret = (1 < options.maxConstexprSteps))
    /\ []((prev.op = "reset" /\ last.op = "pushFrame") =>
              /\ last.ret = (0 < options.maxConstexprDepth)
              /\ Len(stack) = 1)

\* reset() of a session that had used its step budget and its call depth,
\* held a diagnostic, a reference target and a disable target
ResetOfUsedSession ==
    /\ last.op = "reset"
    /\ prev.op = "step" /\ ~prev.ret
    /\ AsConstructed

\* C26: getTopLValue returns the target pushed last among those not yet
\* popped, and no target when none is left: a pop undoes the latest push.
\* pushLValue and popLValue change the reference-target stack only.
TargetsLastInFirstOut ==
    [][/\ last'.op = "pushLValue" =>
              /\ lvalStack' = Append(lvalStack, last'.arg)
              /\ topLValue(lvalStack') = <<last'.arg>>
       /\ last'.op = "popLValue" =>
              /\ Len(lvalStack) >= 1
              /\ lvalStack = Append(lvalStack', lvalStack[Len(lvalStack)])
       /\ last'.op = "getTopLValue" =>
              /\ lvalStack' = lvalStack
              /\ last'.ret = IF lvalStack = <<>> THEN <<>>
                             ELSE <<lvalStack[Len(lvalStack)]>>
              /\ (last.op = "pushLValue") => last'.ret = <<last.arg>>
       /\ last'.op \in {"pushLValue", "popLValue", "getTopLValue"} =>
              UNCHANGED <<steps, stack, diags, disableTarget, assertFailed>>
      ]_vars

\* x was pushed, then y; y has been popped and the top target is x again,
\* in a session with a frame, steps taken and a pending diagnostic
TopAfterPop ==
    /\ last.op = "getTopLValue" /\ last.ret = <<"x">>
    /\ prev.op = "popLValue"
    /\ lvalStack = <<"x">>
    /\ stack # <<>> /\ steps > 0 /\ diags # <<>>

-----------------------------------------------------------------------------
(* Claims about reported diagnostics *)

IsExpansionNote(note) == note.code = "NoteWhileExpanding"

\* C25: reportDiags with no pending diagnostic hands nothing to the scope;
\* with pending diagnostics it hands all of them to the scope in the order
\* in which they were added, the first of them - and no other - with the
\* instantiation backtrace added when, and only when, the context has an
\* assertion instance.
ReportDiagsContract ==
    [][last'.op = "reportDiags" =>
          LET before == Len(drv.scope)
              handed == SubSeq(drv'.scope, before + 1, Len(drv'.scope))
          IN /\ SubSeq(drv'.scope, 1, before) = drv.scope
             /\ Len(handed) = Len(diags)
             /\ \A i \in 1..Len(diags) :
                    /\ handed[i].code = diags[i].code
                    /\ handed[i].location = diags[i].location
                    /\ SubSeq(handed[i].notes, 1, Len(diags[i].notes))
                           = diags[i].notes
                    /\ Len(handed[i].notes) - Len(diags[i].notes) =
                           IF i = 1 /\ drv.assertionInstance THEN 1 ELSE 0
                    /\ (i = 1 /\ drv.assertionInstance) =>
                           IsExpansionNote(handed[1].notes[Len(handed[1].notes)])
      ]_vars

\* two diagnostics, the second one added inside a call, have been reported
\* for an assertion instance
TwoReportedForInstance ==
    /\ last.op = "reportDiags"
    /\ drv.assertionInstance
    /\ Len(drv.scope) = 2
    /\ drv.scope[1].code = "ConstEvalNonConstVariable"
    /\ drv.scope[2].code = "ConstEvalEmptyQueue"
    /\ Len(drv.scope[1].notes) = 1
    /\ IsExpansionNote(drv.scope[1].notes[1])
    /\ Len(drv.scope[2].notes) = 1
    /\ ~IsExpansionNote(drv.scope[2].notes[1])

-----------------------------------------------------------------------------
(* Claims about the traversal methods of associative arrays *)

\* C27: first, last, next and prev of an associative array are never
\* evaluable at compile time: the call is reported as not constant, yields
\* no value, and changes neither the container nor the out-index.
TraversalNeverConstant ==
    [][last'.op \in TraversalNames =>
          /\ ~last'.ret.constant
          /\ last'.ret.value = Null
          /\ last'.ret.index = last'.arg.args[1]
          /\ <<q', dyn', map'>> = <<q, dyn, map>>
          /\ Len(diags') = Len(diags) + 1
          /\ diags'[Len(diags')].code = "SysFuncNotConst"
      ]_vars

\* next has been called on an array that holds both keys
NextOnTwoKeys ==
    /\ last.op = "next"
    /\ DOMAIN map = Keys
    /\ DOMAIN last.pre = Keys
    /\ last.ret.value = Null
    /\ diags # <<>>

-----------------------------------------------------------------------------
(* Claims about element selects *)

\* C28: an element select with an out-of-range index fails hard on a
\* fixed-size array - no value, a fatal diagnostic, the evaluation is over -
\* and softly on a queue, a dynamic array and an associative array: the
\* default value of the element type is returned, a non-fatal diagnostic is
\* recorded and the evaluation goes on.
OutOfRangeSelect ==
    [][(last'.op = "select" /\ ~inRange(Receiver, last'.arg)) =>
          /\ Len(diags') = Len(diags) + 1
          /\ <<q', dyn', map'>> = <<q, dyn, map>>
          /\ IF kind = "FixedSizeUnpackedArrayType"
             THEN /\ last'.ret = Null
                  /\ Fatal(diags'[Len(diags')].code)
                  /\ pc' = "aborted"
             ELSE /\ last'.ret = SVInt(elemType.width, 0, elemType.signed)
                  /\ ~Fatal(diags'[Len(diags')].code)
                  /\ pc' = "idle"
      ]_vars

\* the evaluation has selected past the end of a non-empty fixed-size array
FixedArraySelectAborted ==
    /\ last.op = "select"
    /\ kind = "FixedSizeUnpackedArrayType"
    /\ Len(dyn) = 2
    /\ last.arg = 2
    /\ last.ret = Null
    /\ pc = "aborted"
    /\ Len(diags) = 1

-----------------------------------------------------------------------------
(* Claims about side effects and aborts *)

\* C29: a failing step() or pushFrame() rolls nothing back: it adds a
\* diagnostic and, for step(), counts the step, and leaves the frames, their
\* locals, the reference targets and every container as the evaluation made
\* them.
NoRollbackOnAbort ==
    [][(last'.op \in {"step", "pushFrame"} /\ last'.ret = FALSE) =>
          /\ stack' = stack
          /\ lvalStack' = lvalStack
          /\ <<q', dyn', map'>> = <<q, dyn, map>>
          /\ disableTarget' = disableTarget
          /\ steps' = IF last'.op = "step" THEN steps + 1 ELSE steps
          /\ Len(diags') = Len(diags) + 1
          /\ pc' = "aborted"
      ]_vars

\* the evaluation bound a local, registered a target and pushed two
\* elements, and then ran out of steps
AbortedAfterMutations ==
    /\ pc = "aborted"
    /\ last.op = "step"
    /\ last.ret = FALSE
    /\ q = <<2, 1>>
    /\ Len(stack) = 1
    /\ found(stack, "t") = <<1>>
    /\ lvalStack = <<"x">>

-----------------------------------------------------------------------------
(* Claims about sessions used by two evaluations *)

\* what an evaluation gets when it runs alone on a session of its own
Alone(e) == [failed |-> FALSE, read |-> <<OwnValue(e)>>]

\* C30: an evaluation ends with another result than it gets alone - it
\* fails, or reads a local that is not its own - only when it shares its
\* session with the other evaluation and that one has used the session;
\* with one session per evaluation no interleaving changes either result.
OwnSessionIsolates ==
    \A e \in Evaluations :
        (pc[e] = "done" /\ drv.result[e] # Alone(e)) =>
            /\ drv.mode = "shared"
            /\ pc[Other(e)] # "start"

\* on a shared session with room for both calls and both steps, A has read
\* the value that B bound
SharedSessionReadsOther ==
    /\ drv.mode = "shared"
    /\ pc = [e \in Evaluations |-> "done"]
    /\ ~drv.result["A"].failed
    /\ ~drv.result["B"].failed
    /\ drv.result["A"].read = <<OwnValue("B")>>

-----------------------------------------------------------------------------
(* Claims about the expansion of properties and sequences *)

\* C31: an instantiation is marked recursive exactly when the chain of
\* records that are being expanded holds its construct already, a recursive
\* sequence is rejected, no construct is twice in the chain, and the
\* expansion of constructs that instantiate each other comes to an end.
RecursionIsDetected ==
    /\ [][last'.op = "instantiate" =>
             /\ last'.ret.isRecursive =
                    (\E i \in 1..Len(drv.chain) :
                         drv.chain[i].symbol = last'.arg)
             /\ (last'.ret.isRecursive /\ last'.arg \in Sequences) =>
                    /\ last'.ret.rejected
                    /\ Len(drv'.chain) = Len(drv.chain)
                    /\ drv'.diags = Append(drv.diags, "RecursiveSequence")
             /\ last'.ret.isRecursive => Len(drv'.chain) = Len(drv.chain)
        ]_vars
    /\ [](\A i, j \in 1..Len(drv.chain) :
              drv.chain[i].symbol = drv.chain[j].symbol => i = j)
    /\ <>(pc = "done")

\* p and q instantiate each other: under p and q, p has come up again and
\* has been marked recursive
MutualRecursionMarked ==
    /\ last.op = "instantiate"
    /\ last.arg = "p"
    /\ last.ret.isRecursive
    /\ ~last.ret.rejected
    /\ Len(drv.chain) = 2
    /\ drv.chain[1].symbol = "p"
    /\ drv.chain[2].symbol = "q"

-----------------------------------------------------------------------------
(* Claims about delete on associative arrays *)

-----------------------------------------------------------------------------
(* Claims about frames that are pushed and popped *)

\* C33: popFrame after a push and any createLocal and deleteLocal calls
\* leaves the frame stack as it was before the push - the same depth, the
\* same locals with the same values in every frame - and what findLocal
\* finds is what it found before the push.
PopRestoresStack ==
    [][last'.op = "popFrame" =>
          /\ stack' = drv[Len(drv)]
          /\ \A symbol \in Symbols :
                 found(stack', symbol) = found(drv[Len(drv)], symbol)
      ]_vars

\* a frame in which t was bound has been popped off a frame that binds a
\* but not t
PoppedFrameLocalsGone ==
    /\ last.op = "popFrame"
    /\ Len(stack) = 1
    /\ found(stack, "a") = <<1>>
    /\ found(stack, "t") = <<>>
    /\ Len(drv) = 1

-----------------------------------------------------------------------------
(* Claims about frames without a subroutine *)

\* C34: pushEmptyFrame pushes one frame without subroutine and without
\* locals and records no diagnostic, at any depth, so that the stack can
\* hold more frames than the maximum; pushFrame alone compares the depth
\* with the maximum, and it counts every frame on the stack, the empty
\* ones too.
EmptyFrameIgnoresDepthLimit ==
    [][/\ last'.op = "pushEmptyFrame" =>
              /\ Len(stack') = Len(stack) + 1
              /\ SubSeq(stack', 1, Len(stack)) = stack
              /\ stack'[Len(stack')].subroutine = NoSubroutine
              /\ DOMAIN stack'[Len(stack')].temporaries = {}
              /\ diags' = diags
       /\ last'.op = "pushFrame" =>
              /\ last'.ret = (Len(stack) < options.maxConstexprDepth)
              /\ Len(stack') = IF last'.ret THEN Len(stack) + 1 ELSE Len(stack)
      ]_vars

\* pushEmptyFrame has taken the stack beyond a maximum that calls had
\* reached
EmptyFrameBeyondMaximum ==
    /\ last.op = "pushEmptyFrame"
    /\ options.maxConstexprDepth = MaxLimit
    /\ Len(stack) = options.maxConstexprDepth + 1
    /\ \A i \in 1..options.maxConstexprDepth :
           stack[i].subroutine # NoSubroutine
    /\ stack[Len(stack)].subroutine = NoSubroutine
    /\ diags = <<>>

-----------------------------------------------------------------------------
(* Claims about the queue as a sequence *)

\* C35: after every push_front, push_back, pop_front, pop_back, insert,
\* delete(i) and delete() the queue holds what a plain sequence holds on
\* which the same operations were done, a pop of a queue that is not empty
\* returns what the pop of the sequence returns, and an operation that
\* fails softly leaves the queue as it was.
QueueIsSequence ==
    /\ q = drv.seq
    /\ (last.op \in {"pop_front", "pop_back"} /\ last.pre # <<>>) =>
           <<last.ret>> = drv.ret

\* 1 and 2 were in the queue in this order, and pop_front has returned 1
\* and then 2
FirstInFirstOut ==
    /\ prev.op = "pop_front"
    /\ prev.pre = <<1, 2>>
    /\ last.op = "pop_front"
    /\ last.pre = <<2>>
    /\ last.ret = 2
    /\ q = <<>>
    /\ diags = <<>>

-----------------------------------------------------------------------------
(* Claims about arguments that fail to evaluate *)

\* C36: push_front, push_back and insert called with a receiver, an index
\* or a value whose evaluation failed return no value, leave the queue as
\* it was and record no diagnostic.
FailedArgumentLeavesQueue ==
    [][(\/ /\ last'.op \in {"push_front", "push_back"}
           /\ (last'.arg.lval = "bad" \/ last'.arg.cv = <<>>)
        \/ /\ last'.op = "insert"
           /\ \/ last'.arg.lval = "bad"
              \/ last'.arg.ci = <<>>
              \/ last'.arg.cv = <<>>) =>
          /\ q' = q
          /\ diags' = diags
          /\ last'.ret = Null
          /\ ~assertFailed'
      ]_vars

\* push_back of a value has been called on a queue of two elements through
\* a receiver that failed to evaluate
PushThroughFailedReceiver ==
    /\ last.op = "push_back"
    /\ last.arg = [lval |-> "bad", cv |-> <<1>>]
    /\ Len(last.pre) = 2
    /\ q = last.pre
    /\ diags = <<>>

-----------------------------------------------------------------------------
(* Claims about backtraces that are not elided *)

\* C37: a diagnostic added while the frame stack is no deeper than the
\* backtrace limit, or while the limit is 0, has one note for each frame
\* that has a subroutine, most recent call first, none for a frame without
\* a subroutine, and no elision note.
FullBacktraceWithinLimit ==
    [][(/\ last'.op = "addDiag"
        /\ \/ Len(stack) <= options.maxConstexprBacktrace
           \/ options.maxConstexprBacktrace = 0) =>
          LET notes == LastDiag(diags').notes
              called == SelectSeq(Reverse(stack), IsCall)
          IN /\ Len(notes) = Len(called)
             /\ \A i \in 1..Len(notes) :
                    /\ IsCallNote(notes[i])
                    /\ Describes(notes[i], called[i])
      ]_vars

\* with the limit 0 and an empty frame between two calls, the diagnostic
\* has the notes of the two calls, the inner one first
UnlimitedBacktraceSkipsEmptyFrame ==
    /\ last.op = "addDiag"
    /\ options.maxConstexprBacktrace = 0
    /\ Len(stack) = 3
    /\ IsCall(stack[1]) /\ ~IsCall(stack[2]) /\ IsCall(stack[3])
    /\ stack[1].subroutine # stack[3].subroutine
    /\ Len(LastDiag(diags).notes) = 2
    /\ LastDiag(diags).notes[1].subroutine = stack[3].subroutine
    /\ LastDiag(diags).notes[2].subroutine = stack[1].subroutine

-----------------------------------------------------------------------------
(* Claims about lists of diagnostics added to the session *)

\* C38: addDiags appends the diagnostics of its list, in their order, to
\* those that are pending; the first of them gets, after the notes it has,
\* the backtrace of the calls that are active, the others are appended as
\* they are, and an empty list changes nothing.
AddDiagsContract ==
    [][last'.op = "addDiags" =>
          LET additional == last'.arg
              called == SelectSeq(Reverse(stack), IsCall)
              new == SubSeq(diags', Len(diags) + 1, Len(diags'))
          IN /\ Len(diags') = Len(diags) + Len(additional)
             /\ SubSeq(diags', 1, Len(diags)) = diags
             /\ additional = <<>> => diags' = diags
             /\ \A i \in 2..Len(additional) : new[i] = additional[i]
             /\ additional # <<>> =>
                    /\ new[1].code = additional[1].code
                    /\ new[1].location = additional[1].location
                    /\ Len(new[1].notes) =
                           Len(additional[1].notes) + Len(called)
                    /\ SubSeq(new[1].notes, 1, Len(additional[1].notes))
                           = additional[1].notes
                    /\ \A i \in 1..Len(called) :
                           Describes(new[1].notes[Len(additional[1].notes) + i],
                                     called[i])
      ]_vars

\* a list of two has been added inside a call to the one diagnostic that
\* was pending: the first of the two has the note of the call, the second
\* has none
SecondOfListUnchanged ==
    /\ last.op = "addDiags"
    /\ Len(last.arg) = 2
    /\ Len(stack) = 1
    /\ Len(diags) = 3
    /\ diags[2].code = "ConstEvalEmptyQueue"
    /\ Len(diags[2].notes) = 2
    /\ IsCallNote(diags[2].notes[2])
    /\ diags[3] = last.arg[2]
    /\ diags[3].notes = <<>>

-----------------------------------------------------------------------------
(* Claims about diagnostics that stay pending *)

SameDiagnostic(d, e) == d.code = e.code /\ d.location = e.location

\* C39 as stated: the pending list is the same before and after reportDiags.
ReportDiagsKeepsList ==
    [][last'.op = "reportDiags" => diags' = diags]_vars

\* C39: reportDiags removes no diagnostic: the pending list keeps its
\* length, its order and every diagnostic but the first as it is, and the
\* first keeps its notes and gains the instantiation backtrace when the
\* context has an assertion instance; a second reportDiags hands the
\* pending diagnostics over again, and only reset() empties the list.
ReportDiagsKeepsPending ==
    /\ [][last'.op = "reportDiags" =>
             /\ Len(diags') = Len(diags)
             /\ \A i \in 1..Len(diags) :
                    /\ SameDiagnostic(diags'[i], diags[i])
                    /\ i > 1 => diags'[i] = diags[i]
                    /\ SubSeq(diags'[i].notes, 1, Len(diags[i].notes))
                           = diags[i].notes
             /\ ~drv.assertionInstance => diags' = diags
             /\ SubSeq(drv'.scope, Len(drv.scope) + 1, Len(drv'.scope))
                    = diags'
        ]_vars
    /\ [][(diags # <<>> /\ diags' = <<>>) => last'.op = "reset"]_vars

\* the one pending diagnostic has been reported twice for an assertion
\* instance: the scope has it twice, the second time with one more note
ReportedTwice ==
    /\ last.op = "reportDiags"
    /\ drv.assertionInstance
    /\ Len(diags) = 1
    /\ Len(drv.scope) = 2
    /\ SameDiagnostic(drv.scope[1], drv.scope[2])
    /\ Len(drv.scope[2].notes) = Len(drv.scope[1].notes) + 1
    /\ drv.scope[2] = diags[1]

====
